---- MODULE Spec2Model ----
(***************************************************************************)
(* A model of the PasPages core: the manifest Validator, the process-wide  *)
(* Registry, and the Migrator with the Database wrapper it runs on.        *)
(*                                                                         *)
(* JavaScript values are tagged records, so that truthiness, `||`, strict  *)
(* equality and property lookup are computed the way the runtime computes  *)
(* them.  Text that the code parses (version strings) is a sequence of     *)
(* one-character strings; text that the code only stores, compares or      *)
(* concatenates (slugs, view names, markup) is a TLA+ string.              *)
(***************************************************************************)
EXTENDS Integers, Sequences, FiniteSets, TLC

VARIABLES
    op,            \* the last call made and what it returned
    templates,     \* Registry.templates: own keys -> markup
    activeTheme,   \* Registry.activeTheme
    translations,  \* Registry.translations: locale -> key -> text
    systemLogs,    \* Registry.systemLogs (messages, the time stamp left out)
    calls,         \* the Registry writes made so far, in order
    ledgerTable,   \* whether the _migrations table exists in the database
    ledger,        \* the rows of _migrations, in insertion order
    sent,          \* (slug, version) -> times raw() sent its SQL to the database
    applied,       \* (slug, version) -> times the database executed it successfully
    mig,           \* per caller: the applyMigration call in flight
    outs,          \* the applyMigration calls that returned, in order
    schemas,       \* Registry.schemas, in registration order
    pluginList,    \* Registry.pluginList
    menus,         \* Registry.menus, in registration order
    modules,       \* the discovered module list (modules.gen)
    cursor,        \* the loader's position in the module list; 0 before it runs
    mounts,        \* the list positions whose mount function ran, in order
    sweep,         \* the migration sweep request in flight, or the last one
    settings,      \* the core_settings table of the database
    pages,         \* the static_pages table of the database
    home,          \* the root request in flight, or the last one
    served         \* root requests received so far

vars == <<op, templates, activeTheme, translations, systemLogs, calls,
          ledgerTable, ledger, sent, applied, mig, outs,
          schemas, pluginList, menus, modules, cursor, mounts, sweep,
          settings, pages, home, served>>

registryVars == <<templates, activeTheme, translations, systemLogs, calls>>
databaseVars == <<ledgerTable, ledger, sent, applied>>
migratorVars == <<mig, outs>>
loaderVars == <<modules, cursor, mounts>>
storeVars == <<settings, pages>>
homeVars == <<home, served>>
siteVars == <<schemas, pluginList, menus, loaderVars, sweep, storeVars, homeVars>>

(***************************************************************************)
(* Bounds of the model.                                                    *)
(***************************************************************************)
MaxReqLen == 4          \* longest declared-requirement string
MaxRegistryCalls == 3   \* Registry writes per behaviour
MaxCalls == 2           \* applyMigration calls after which no new caller starts
MaxSchemas == 2         \* schema records registered per behaviour
MaxModules == 2         \* modules the generator lists
MaxRequests == 1        \* root requests per behaviour
MaxSqlLen == 3          \* longest schema text handed to Database.raw alone

(***************************************************************************)
(* JavaScript values.                                                      *)
(***************************************************************************)
Undefined == [t |-> "undefined"]
Null == [t |-> "null"]
Str(s) == [t |-> "string", v |-> s]
Num(n) == [t |-> "number", v |-> n]
NaN == [t |-> "number", nan |-> TRUE]
Fn(name) == [t |-> "function", v |-> name]

\* ToBoolean: undefined, null, "", 0 and NaN are falsy.
Truthy(x) ==
    CASE x.t = "undefined" -> FALSE
      [] x.t = "null" -> FALSE
      [] x.t = "string" -> Len(x.v) > 0
      [] x.t = "number" -> IF "nan" \in DOMAIN x THEN FALSE ELSE x.v # 0
      [] OTHER -> TRUE

\* a || b
OrElse(a, b) == IF Truthy(a) THEN a ELSE b

\* a === b
StrictEq(a, b) ==
    /\ a.t = b.t
    /\ CASE a.t = "number" ->
              /\ "nan" \notin DOMAIN a
              /\ "nan" \notin DOMAIN b
              /\ a.v = b.v
         [] a.t \in {"undefined", "null"} -> TRUE
         [] OTHER -> a.v = b.v

\* Names every object literal inherits from Object.prototype.
ObjectPrototypeKeys == {"constructor", "toString"}

\* obj[k] for an object literal whose own properties are the function obj.
Get(obj, k) ==
    IF k \in DOMAIN obj THEN Str(obj[k])
    ELSE IF k \in ObjectPrototypeKeys THEN Fn(k)
    ELSE Undefined

(***************************************************************************)
(* Validator (src/src/core/database.ts, 120-181) and CONFIG.               *)
(***************************************************************************)
CORE_VERSION == <<"1", ".", "0", ".", "0">>

DecDigits == <<"0", "1", "2", "3", "4", "5", "6", "7", "8", "9">>
HexDigits == DecDigits \o <<"a", "b", "c", "d", "e", "f">>
WhiteSpace == {" ", "\t", "\n"}

DigitValue(c) == (CHOOSE i \in 1..Len(HexDigits) : HexDigits[i] = c) - 1

IsDigit(c, radix) == \E i \in 1..radix : HexDigits[i] = c

\* s.split('.')[0]: the text before the first dot, the whole text without one.
FirstPart(s) ==
    LET dots == {i \in 1..Len(s) : s[i] = "."}
    IN IF dots = {} THEN s
       ELSE SubSeq(s, 1, (CHOOSE i \in dots : \A j \in dots : i <= j) - 1)

RECURSIVE DigitsValue(_, _, _)
\* The number the longest prefix of radix-digits of s denotes, after acc.
DigitsValue(s, radix, acc) ==
    IF s = <<>> \/ ~IsDigit(Head(s), radix) THEN acc
    ELSE DigitsValue(Tail(s), radix, acc * radix + DigitValue(Head(s)))

RECURSIVE TrimStart(_)
TrimStart(s) ==
    IF s # <<>> /\ Head(s) \in WhiteSpace THEN TrimStart(Tail(s)) ELSE s

\* parseInt(s) with no radix: leading white space is skipped, a sign is
\* read, a 0x prefix selects radix 16, then the longest prefix of digits
\* is the value; with no digit at all the result is NaN.
parseInt(s) ==
    LET t == TrimStart(s)
        neg == t # <<>> /\ Head(t) = "-"
        u == IF t # <<>> /\ Head(t) \in {"-", "+"} THEN Tail(t) ELSE t
        hex == Len(u) >= 2 /\ u[1] = "0" /\ u[2] \in {"x", "X"}
        radix == IF hex THEN 16 ELSE 10
        d == IF hex THEN SubSeq(u, 3, Len(u)) ELSE u
    IN IF d = <<>> \/ ~IsDigit(Head(d), radix) THEN NaN
       ELSE Num((IF neg THEN -1 ELSE 1) * DigitsValue(d, radix, 0))

\* The completion of a call: a returned value or a thrown exception.
Return(v) == [threw |-> FALSE, val |-> v]
Throw == [threw |-> TRUE]

\* The try block of isCompatible against a core version: split is not a
\* function on a value that is not a string, and the call throws.
CompatibleWith(core, requiredVersion) ==
    IF requiredVersion.t # "string" THEN Throw
    ELSE Return(StrictEq(parseInt(FirstPart(core)),
                         parseInt(FirstPart(requiredVersion.v))))

\* isCompatible with its catch removed.
isCompatibleNoCatch(requiredVersion) ==
    CompatibleWith(CORE_VERSION, requiredVersion)

\* isCompatible comparing the first character only.
isCompatibleFirstChar(requiredVersion) ==
    IF requiredVersion.t # "string" THEN Return(FALSE)
    ELSE Return(requiredVersion.v # <<>>
                /\ requiredVersion.v[1] = CORE_VERSION[1])

isCompatible(requiredVersion) ==
    LET body == CompatibleWith(CORE_VERSION, requiredVersion)
    IN IF body.threw THEN Return(FALSE) ELSE body

Invalid(why) == Return([isValid |-> FALSE, error |-> why])
Valid == Return([isValid |-> TRUE])

\* validate treating a missing requirement as compatible.
validateCompatibleByDefault(module, type) ==
    IF ~Truthy(module) \/ ~Truthy(module.manifest) THEN Invalid("missing")
    ELSE LET m == module.manifest
         IN IF ~Truthy(m.slug) \/ ~Truthy(m.version) THEN Invalid("structure")
            ELSE IF ~StrictEq(m.type, type) THEN Invalid("type")
            ELSE IF ~Truthy(m.requires) THEN Valid
            ELSE LET c == isCompatible(m.requires)
                 IN IF c.threw THEN Throw
                    ELSE IF ~c.val THEN Invalid("incompatible")
                    ELSE Valid

\* validate without the type consistency check.
validateNoTypeCheck(module, type) ==
    IF ~Truthy(module) \/ ~Truthy(module.manifest) THEN Invalid("missing")
    ELSE LET m == module.manifest
         IN IF ~Truthy(m.slug) \/ ~Truthy(m.version) THEN Invalid("structure")
            ELSE IF ~Truthy(m.requires) THEN Invalid("strict")
            ELSE LET c == isCompatible(m.requires)
                 IN IF c.threw THEN Throw
                    ELSE IF ~c.val THEN Invalid("incompatible")
                    ELSE Valid

validate(module, type) ==
    IF ~Truthy(module) \/ ~Truthy(module.manifest) THEN Invalid("missing")
    ELSE LET m == module.manifest
         IN IF ~Truthy(m.slug) \/ ~Truthy(m.version) THEN Invalid("structure")
            ELSE IF ~StrictEq(m.type, type) THEN Invalid("type")
            ELSE IF ~Truthy(m.requires) THEN Invalid("strict")
            ELSE LET c == isCompatible(m.requires)
                 IN IF c.threw THEN Throw
                    ELSE IF ~c.val THEN Invalid("incompatible")
                    ELSE Valid

\* The inputs of the Validator.
ReqChars == {"0", "1", "2", "x", "."}
ReqStrings == UNION {[1..n -> ReqChars] : n \in 0..MaxReqLen}
RequiresValues == {Undefined, Num(1)} \cup {Str(s) : s \in ReqStrings}
SlugValues == {Undefined, Str(""), Str("shop")}
VersionValues == {Undefined, Str("1.2.0")}
KindValues == {Undefined, Str("plugin"), Str("theme"), Str("widget")}
\* A module that is undefined, and one that exports no manifest.
BareModules == {Undefined, [t |-> "object", manifest |-> Undefined]}
\* A module exporting the manifest with the fields m.
ModuleOf(m) == [t |-> "object", manifest |-> [t |-> "object"] @@ m]
ExpectedKinds == {Str("plugin"), Str("theme")}


\* A call that has been made and has not returned yet.
Pending == [threw |-> FALSE, pending |-> TRUE]

IsPending(c) == "pending" \in DOMAIN c

\* The Validator is called: validate with any module and kind, or
\* isCompatible with any requirement.
CallValidator ==
    /\ op.name = "none"
    /\ \/ \E module \in BareModules, type \in ExpectedKinds :
            op' = [name |-> "validate", module |-> module, type |-> type,
                   ret |-> Pending]
       \/ \E slug \in SlugValues, version \in VersionValues, kind \in KindValues,
             requires \in RequiresValues, type \in ExpectedKinds :
            op' = [name |-> "validate",
                   module |-> ModuleOf([slug |-> slug, version |-> version,
                                        type |-> kind, requires |-> requires]),
                   type |-> type, ret |-> Pending]
       \/ \E requires \in RequiresValues :
            op' = [name |-> "isCompatible", requires |-> requires, ret |-> Pending]
    /\ UNCHANGED <<registryVars, siteVars, databaseVars, migratorVars>>

\* Validator.validate(module, type) runs to completion.
Validate ==
    /\ op.name = "validate"
    /\ IsPending(op.ret)
    /\ op' = [op EXCEPT !.ret = validate(op.module, op.type)]
    /\ UNCHANGED <<registryVars, siteVars, databaseVars, migratorVars>>

\* Validator.isCompatible(requiredVersion), called directly, runs to completion.
IsCompatible ==
    /\ op.name = "isCompatible"
    /\ IsPending(op.ret)
    /\ op' = [op EXCEPT !.ret = isCompatible(op.requires)]
    /\ UNCHANGED <<registryVars, siteVars, databaseVars, migratorVars>>

(***************************************************************************)
(* Registry (src/src/core/registry.ts).                                    *)
(***************************************************************************)
EmptyMap == [k \in {} |-> ""]

Put(m, k, v) == [x \in DOMAIN m \cup {k} |-> IF x = k THEN v ELSE m[x]]

\* { ...a, ...b }
Merge(a, b) ==
    [x \in DOMAIN a \cup DOMAIN b |-> IF x \in DOMAIN b THEN b[x] ELSE a[x]]

Themes == {"nebula", "themeA", "themeB"}
Views == {"landing", "public_page"}
\* A template with placeholders: {{a}} twice, {{b}}, and the two fields the
\* view engine adds.
TemplateHtml == "<t>{{a}}{{b}}{{a}}{{theme_name}}{{year}}"
Markup == {"", "A", "B", TemplateHtml}
Locales == {"en", "fr"}
Keys == {"k1", "k2"}
Texts == {"", "V1", "V2"}
TranslationData == UNION {[D -> Texts] : D \in SUBSET Keys}

\* `${theme}:${view}`
ThemeKey(theme, view) == theme \o ":" \o view

\* A log that keeps its two latest lines.
LogAppendCapped(logs, message) ==
    IF Len(logs) < 2 THEN Append(logs, message)
    ELSE Append(Tail(logs), message)

\* Registry.log: the entry is "[HH:MM:SS] message"; the model keeps the
\* message and leaves the wall-clock stamp out.
LogAppend(logs, message) == Append(logs, message)

\* registerThemeView writing the bare alias for the active theme only.
registerThemeViewActiveOnly(t, theme, view, html) ==
    LET scoped == Put(t, ThemeKey(theme, view), html)
    IN IF view = "landing" /\ theme = activeTheme
           THEN Put(scoped, "landing", html)
       ELSE scoped

\* The templates after registerThemeView(theme, view, html) on templates t.
registerThemeView(t, theme, view, html) ==
    LET scoped == Put(t, ThemeKey(theme, view), html)
    IN IF view = "landing" THEN Put(scoped, "landing", html) ELSE scoped

\* The templates after registerView(name, html) on templates t.
registerView(t, name, html) == Put(t, name, html)

\* getView falling back to any theme's entry before the bare name.
getViewAnyTheme(view) ==
    LET themeScoped == Get(templates, ThemeKey(activeTheme, view))
        others == {th \in {"nebula", "themeA", "themeB"} :
                        Truthy(Get(templates, ThemeKey(th, view)))}
    IN IF Truthy(themeScoped) THEN themeScoped
       ELSE IF others # {}
            THEN Get(templates, ThemeKey(CHOOSE th \in others : TRUE, view))
       ELSE OrElse(Get(templates, view), Null)

getView(view) ==
    LET themeScoped == Get(templates, ThemeKey(activeTheme, view))
    IN IF Truthy(themeScoped) THEN themeScoped
       ELSE OrElse(Get(templates, view), Null)

getThemeView(theme, view) == OrElse(Get(templates, ThemeKey(theme, view)), Null)

getActiveThemeName == activeTheme

\* tr[locale], for the translation table tr
LocaleTable(tr, locale) ==
    IF locale \in DOMAIN tr THEN [t |-> "object", own |-> tr[locale]]
    ELSE IF locale \in ObjectPrototypeKeys THEN Fn(locale)
    ELSE Undefined

\* tr[locale]?.[key] || null
getTranslationIn(tr, locale, key) ==
    LET table == LocaleTable(tr, locale)
        found == CASE table.t = "object" -> Get(table.own, key)
                   [] table.t = "function" -> Get(EmptyMap, key)
                   [] OTHER -> Undefined
    IN OrElse(found, Null)

getTranslation(locale, key) == getTranslationIn(translations, locale, key)

\* this.translations[locale] || {}
getTranslations(locale) ==
    OrElse(LocaleTable(translations, locale),
           [t |-> "object", own |-> EmptyMap])

\* The translations after registerTranslation(locale, data) on tr.
registerTranslation(tr, locale, data) ==
    LET base == IF locale \in DOMAIN tr THEN tr[locale] ELSE EmptyMap
    IN Put(tr, locale, Merge(base, data))

\* { en: {}, id: {} }
InitialTranslations == [l \in {"en", "id"} |-> EmptyMap]

CanRegister == Len(calls) < MaxRegistryCalls

RegisterThemeView ==
    /\ CanRegister
    /\ \E theme \in Themes, view \in Views, html \in Markup :
        /\ templates' = registerThemeView(templates, theme, view, html)
        /\ calls' = Append(calls, [name |-> "registerThemeView", theme |-> theme,
                                   view |-> view, html |-> html])
    /\ UNCHANGED <<op, activeTheme, translations, systemLogs,
                   databaseVars, migratorVars, siteVars>>

RegisterView ==
    /\ CanRegister
    /\ \E name \in Views, html \in Markup :
        /\ templates' = registerView(templates, name, html)
        /\ calls' = Append(calls, [name |-> "registerView", view |-> name,
                                   html |-> html])
    /\ UNCHANGED <<op, activeTheme, translations, systemLogs,
                   databaseVars, migratorVars, siteVars>>

\* setActiveTheme keeping the theme of the first caller.
SetActiveThemeFirstWins ==
    /\ CanRegister
    /\ \E name \in Themes :
        /\ activeTheme' = IF \E i \in 1..Len(calls) :
                                 calls[i].name = "setActiveTheme"
                              THEN activeTheme
                          ELSE name
        /\ systemLogs' = LogAppend(systemLogs, "Theme switched to: " \o name)
        /\ calls' = Append(calls, [name |-> "setActiveTheme", theme |-> name])
    /\ UNCHANGED <<op, templates, translations, databaseVars, migratorVars,
                   siteVars>>

SetActiveTheme ==
    /\ CanRegister
    /\ \E name \in Themes :
        /\ activeTheme' = name
        /\ systemLogs' = LogAppend(systemLogs, "Theme switched to: " \o name)
        /\ calls' = Append(calls, [name |-> "setActiveTheme", theme |-> name])
    /\ UNCHANGED <<op, templates, translations, databaseVars, migratorVars,
                   siteVars>>

RegisterTranslation ==
    /\ CanRegister
    /\ \E locale \in Locales, data \in TranslationData :
        /\ translations' = registerTranslation(translations, locale, data)
        /\ calls' = Append(calls, [name |-> "registerTranslation",
                                   locale |-> locale, data |-> data])
    /\ UNCHANGED <<op, templates, activeTheme, systemLogs,
                   databaseVars, migratorVars, siteVars>>

\* Slugs and names with and without the separator of the composite key.
KeySlugs == {"a", "a:b"}
KeyViews == {"c", "b:c"}
BareNames == {"c", "a:c", "a:b:c"}

\* registerThemeView called with any of these slugs and views.
RegisterKeyedThemeView ==
    /\ CanRegister
    /\ \E theme \in KeySlugs, view \in KeyViews, html \in {"A", "B"} :
        /\ templates' = registerThemeView(templates, theme, view, html)
        /\ calls' = Append(calls, [name |-> "registerThemeView", theme |-> theme,
                                   view |-> view, html |-> html])
    /\ UNCHANGED <<op, activeTheme, translations, systemLogs,
                   databaseVars, migratorVars, siteVars>>

\* registerView called with any of these names.
RegisterKeyedView ==
    /\ CanRegister
    /\ \E name \in BareNames, html \in {"A", "B"} :
        /\ templates' = registerView(templates, name, html)
        /\ calls' = Append(calls, [name |-> "registerView", view |-> name,
                                   html |-> html])
    /\ UNCHANGED <<op, activeTheme, translations, systemLogs,
                   databaseVars, migratorVars, siteVars>>

\* CONFIG.defaultLocale
defaultLocale == "en"

\* new I18n(locale).t(key)
t(locale, key) ==
    LET val == getTranslation(locale, key)
    IN IF Truthy(val) THEN val
       ELSE IF locale # defaultLocale
                 /\ Truthy(getTranslation(defaultLocale, key))
           THEN getTranslation(defaultLocale, key)
       ELSE Str(key)

\* i18n.t(key) is called for a request in some locale.
CallT ==
    /\ IF op.name = "none" THEN TRUE ELSE ~IsPending(op.ret)
    /\ \E locale \in Locales, key \in {"k1", "toString"} :
        op' = [name |-> "t", locale |-> locale, key |-> key, ret |-> Pending]
    /\ UNCHANGED <<registryVars, siteVars, databaseVars, migratorVars>>

\* i18n.t(key) returns.
TReturn ==
    /\ op.name = "t"
    /\ IsPending(op.ret)
    /\ op' = [op EXCEPT !.ret = t(op.locale, op.key)]
    /\ UNCHANGED <<registryVars, siteVars, databaseVars, migratorVars>>

(***************************************************************************)
(* Database (src/src/core/database.ts, 7-116) and Migrator                 *)
(* (src/unnamed/part_002).  Every call on the database takes an input ok:  *)
(* whether the store answers it or fails it.                               *)
(***************************************************************************)
Callers == {1}
\* The requests to the migration endpoint that may be in flight together.
Sweepers == {1, 2}
Pairs == {<<"core-system", "1.0.0">>, <<"shop", "1.0.0">>, <<"shop", "1.1.0">>}
SqlTexts == {<<>>, <<" ">>, <<";">>, <<"s", ";">>, <<"s", ";", " ", "s">>}
Durations == {0, 1}

RECURSIVE TrimEnd(_)
TrimEnd(s) ==
    IF s # <<>> /\ s[Len(s)] \in WhiteSpace
        THEN TrimEnd(SubSeq(s, 1, Len(s) - 1))
    ELSE s

\* s.trim()
Trim(s) == TrimEnd(TrimStart(s))

RECURSIVE Split(_, _)
\* s.split(sep): the pieces between the separators, empty ones included.
Split(s, sep) ==
    LET at == {i \in 1..Len(s) : s[i] = sep}
    IN IF at = {} THEN <<s>>
       ELSE LET i == CHOOSE x \in at : \A y \in at : x <= y
            IN <<SubSeq(s, 1, i - 1)>> \o Split(SubSeq(s, i + 1, Len(s)), sep)

\* sql.split(';').map(s => s.trim()).filter(s => s.length > 0)
splitStatements(sql) ==
    LET parts == Split(sql, ";")
        trimmed == [i \in 1..Len(parts) |-> Trim(parts[i])]
    IN SelectSeq(trimmed, LAMBDA st : Len(st) > 0)

\* Whether raw(sql) reaches the database at all.
IsBlank(sql) == sql = <<>> \/ Trim(sql) = <<>>

\* Database.raw(sql) when the store answers ok, each statement taking d:
\* one statement goes through exec, any other number through batch, which
\* answers with one result per prepared statement.
raw(sql, ok, d) ==
    IF IsBlank(sql) THEN [count |-> 0, duration |-> 0]
    ELSE LET statements == splitStatements(sql)
         IN IF ~ok
                THEN [count |-> 0, duration |-> 0, success |-> FALSE,
                      error |-> "e.message"]
            ELSE IF Len(statements) = 1
                THEN [count |-> 1, duration |-> d, success |-> TRUE]
            ELSE [count |-> Len(statements), duration |-> d * Len(statements),
                  success |-> TRUE]

\* The schema texts handed to raw: every text of up to MaxSqlLen characters.
RawTexts == UNION {[1..n -> {"s", ";", " "}] : n \in 0..MaxSqlLen}

\* Database.raw is called with a schema text.
CallRaw ==
    /\ IF op.name = "none" THEN TRUE ELSE ~IsPending(op.ret)
    /\ \E sql \in RawTexts : op' = [name |-> "raw", sql |-> sql, ret |-> Pending]
    /\ UNCHANGED <<registryVars, siteVars, databaseVars, migratorVars>>

\* Database.raw returns, the store having answered or failed.
RawReturn ==
    /\ op.name = "raw"
    /\ IsPending(op.ret)
    /\ \E ok \in BOOLEAN, d \in Durations :
        op' = [op EXCEPT !.ret = raw(op.sql, ok, d)]
    /\ UNCHANGED <<registryVars, siteVars, databaseVars, migratorVars>>

\* result && result.success === false
ReportsFailure(result) == "success" \in DOMAIN result /\ result.success = FALSE

InLedger(slug, version) ==
    \E i \in 1..Len(ledger) : ledger[i] = <<slug, version>>

\* Database.findOne on _migrations: a failing query is caught and read as
\* no row.
findOneMigration(slug, version, ok) ==
    IF ok /\ ledgerTable /\ InLedger(slug, version)
        THEN [t |-> "object", slug |-> slug, version |-> version]
    ELSE Null

\* InsertThrows on a _migrations table without UNIQUE(slug, version).
InsertThrowsNoUnique(slug, version, ok) ==
    ~ok \/ ~ledgerTable

\* Whether Database.run of the INSERT into _migrations throws: the store
\* fails, the table is missing, or UNIQUE(slug, version) is violated.
InsertThrows(slug, version, ok) ==
    ~ok \/ ~ledgerTable \/ InLedger(slug, version)

Idle == [pc |-> "idle"]

\* A table that has not been created.
NoTable == [exists |-> FALSE]

\* c.down with the stage added when the store failed the call (ok false).
Down(c, stage, ok) == IF ok THEN c.down ELSE c.down \cup {stage}

\* The record of a returned applyMigration call: faults are the stages whose
\* database call failed, down those the store itself failed, table0 whether
\* the ledger table existed when the call was entered.
Outcome(c, out, faults, rawCalled) ==
    [slug |-> c.slug, version |-> c.version, blank |-> IsBlank(c.sql),
     out |-> out, faults |-> faults, rawCalled |-> rawCalled,
     caller |-> c.caller,
     down |-> c.down, table0 |-> c.table0,
     sent |-> sent'[<<c.slug, c.version>>],
     hadRow |-> \E i \in 1..Len(c.ledger0) : c.ledger0[i] = <<c.slug, c.version>>,
     inLedger |-> \E i \in 1..Len(ledger') : ledger'[i] = <<c.slug, c.version>>,
     ledgerUnchanged |-> ledger' = c.ledger0]

\* Migrator.initSystem: CREATE TABLE IF NOT EXISTS _migrations.
InitSystem(p) ==
    /\ mig[p].pc = "idle"
    /\ \E ok \in BOOLEAN :
        /\ ledgerTable' = (ledgerTable \/ ok)
        /\ op' = [name |-> "initSystem", ret |-> IF ok THEN Return(Undefined) ELSE Throw]
    /\ UNCHANGED <<registryVars, siteVars, ledger, sent, applied, migratorVars>>

\* applyMigration(slug, version, sql) is entered.
ApplyStart(p) ==
    /\ mig[p].pc = "idle"
    /\ Len(outs) < MaxCalls
    /\ \E pair \in Pairs, sql \in SqlTexts :
        mig' = [mig EXCEPT ![p] = [pc |-> "lookup", slug |-> pair[1],
                                   version |-> pair[2], sql |-> sql,
                                   faults |-> {}, down |-> {}, caller |-> p,
                                   ledger0 |-> ledger, table0 |-> ledgerTable]]
    /\ UNCHANGED <<op, registryVars, siteVars, databaseVars, outs>>

\* Step 1: the ledger lookup, and the SKIP return.
ApplyLookup(p) ==
    /\ mig[p].pc = "lookup"
    /\ \E ok \in BOOLEAN :
        LET c == [mig[p] EXCEPT !.down = Down(mig[p], "lookup", ok)]
            exists == findOneMigration(c.slug, c.version, ok)
            faults == IF ok /\ ledgerTable THEN {} ELSE {"lookup"}
        IN /\ UNCHANGED <<op, registryVars, siteVars, databaseVars>>
           /\ IF Truthy(exists)
                THEN /\ outs' = Append(outs, Outcome(c, "SKIP", faults, FALSE))
                     /\ mig' = [mig EXCEPT ![p] = Idle]
              ELSE /\ mig' = [mig EXCEPT ![p] = [c EXCEPT !.pc = "exec",
                                                       !.faults = faults]]
                   /\ outs' = outs

\* ApplyExec recording the pair although the executor reported failure.
ApplyExecRecordsFailure(p) ==
    /\ mig[p].pc = "exec"
    /\ \E ok \in BOOLEAN, d \in Durations :
        LET c == [mig[p] EXCEPT
                      !.down = Down(mig[p], "exec", ok \/ IsBlank(mig[p].sql))]
            pair == <<c.slug, c.version>>
            result == raw(c.sql, ok, d)
        IN /\ UNCHANGED <<op, registryVars, siteVars, ledgerTable>>
           /\ sent' = IF IsBlank(c.sql) THEN sent
                      ELSE [sent EXCEPT ![pair] = @ + 1]
           /\ applied' = IF IsBlank(c.sql) \/ ~ok THEN applied
                         ELSE [applied EXCEPT ![pair] = @ + 1]
           /\ IF ReportsFailure(result)
                THEN /\ ledger' = IF ledgerTable /\ ~InLedger(c.slug, c.version)
                                      THEN Append(ledger, pair) ELSE ledger
                     /\ outs' = Append(outs, Outcome(c, "ERROR_SQL",
                                                    c.faults \cup {"exec"}, TRUE))
                     /\ mig' = [mig EXCEPT ![p] = Idle]
              ELSE /\ mig' = [mig EXCEPT ![p] = [c EXCEPT !.pc = "insert"]]
                   /\ UNCHANGED <<ledger, outs>>

\* Steps 2 and 3: the SQL goes through Database.raw, and a reported failure
\* returns ERROR.
ApplyExec(p) ==
    /\ mig[p].pc = "exec"
    /\ \E ok \in BOOLEAN, d \in Durations :
        LET c == [mig[p] EXCEPT
                      !.down = Down(mig[p], "exec", ok \/ IsBlank(mig[p].sql))]
            pair == <<c.slug, c.version>>
            result == raw(c.sql, ok, d)
        IN /\ UNCHANGED <<op, registryVars, siteVars, ledgerTable, ledger>>
           /\ sent' = IF IsBlank(c.sql) THEN sent
                      ELSE [sent EXCEPT ![pair] = @ + 1]
           /\ applied' = IF IsBlank(c.sql) \/ ~ok THEN applied
                         ELSE [applied EXCEPT ![pair] = @ + 1]
           /\ IF ReportsFailure(result)
                THEN /\ outs' = Append(outs, Outcome(c, "ERROR_SQL",
                                                    c.faults \cup {"exec"}, TRUE))
                     /\ mig' = [mig EXCEPT ![p] = Idle]
              ELSE /\ mig' = [mig EXCEPT ![p] = [c EXCEPT !.pc = "insert"]]
                   /\ outs' = outs

\* ApplyInsert returning SUCCESS without recording the pair.
ApplyInsertForgets(p) ==
    /\ mig[p].pc = "insert"
    /\ \E ok \in BOOLEAN :
        LET c == [mig[p] EXCEPT !.down = Down(mig[p], "insert", ok)]
        IN /\ UNCHANGED <<op, registryVars, siteVars, ledgerTable, sent,
                        applied, ledger>>
           /\ mig' = [mig EXCEPT ![p] = Idle]
           /\ IF InsertThrows(c.slug, c.version, ok)
                THEN outs' = Append(outs, Outcome(c, "ERROR_FATAL",
                                                  c.faults \cup {"insert"}, TRUE))
              ELSE outs' = Append(outs, Outcome(c, "SUCCESS", c.faults, TRUE))

\* Step 5: the pair is recorded, and SUCCESS returned; an INSERT that throws
\* is caught and returned as the fatal ERROR.
ApplyInsert(p) ==
    /\ mig[p].pc = "insert"
    /\ \E ok \in BOOLEAN :
        LET c == [mig[p] EXCEPT !.down = Down(mig[p], "insert", ok)]
        IN /\ UNCHANGED <<op, registryVars, siteVars, ledgerTable, sent, applied>>
           /\ mig' = [mig EXCEPT ![p] = Idle]
           /\ IF InsertThrows(c.slug, c.version, ok)
                THEN /\ ledger' = ledger
                     /\ outs' = Append(outs, Outcome(c, "ERROR_FATAL",
                                                    c.faults \cup {"insert"}, TRUE))
              ELSE /\ ledger' = Append(ledger, <<c.slug, c.version>>)
                   /\ outs' = Append(outs, Outcome(c, "SUCCESS", c.faults, TRUE))

(***************************************************************************)
(* The schema records of the Registry (src/src/core/registry.ts, 75-88)    *)
(* and the migration sweep, POST /admin/system/migrate                     *)
(* (src/unnamed/part_003, 259-293).  The sweep awaits initSystem and each  *)
(* applyMigration, so it is a sequence of steps around the steps of the    *)
(* Migrator.                                                               *)
(***************************************************************************)
\* this.schemas.push({ slug, version, sql, schema: sql })
\* registerSchema keeping one record per (slug, version).
registerSchemaOnce(list, slug, version, sql) ==
    IF \E i \in 1..Len(list) : list[i].slug = slug /\ list[i].version = version
        THEN list
    ELSE Append(list, [slug |-> slug, version |-> version, sql |-> sql])

\* Registry.registerSchema: the record is pushed, whatever the list holds.
registerSchema(list, slug, version, sql) ==
    Append(list, [slug |-> slug, version |-> version, sql |-> sql])

getSchemas == schemas

\* this.schemas.find(s => s.slug === slug)
getSchema(slug) ==
    LET at == {i \in 1..Len(schemas) : schemas[i].slug = slug}
    IN IF at = {} THEN Undefined
       ELSE [t |-> "object"]
            @@ schemas[CHOOSE i \in at : \A j \in at : i <= j]

\* The schema texts modules register: none, or statements.
SchemaTexts == {<<>>, <<"s", ";", " ", "s">>}

\* Registry.registerSchema, called while the modules load: before any
\* request is served.
RegisterSchema ==
    /\ Len(schemas) < MaxSchemas
    /\ sweep.pc = "none"
    /\ outs = <<>>
    /\ \A p \in Sweepers : mig[p].pc = "idle"
    /\ \E pair \in Pairs, sql \in SchemaTexts :
        /\ schemas' = registerSchema(schemas, pair[1], pair[2], sql)
        /\ systemLogs' = LogAppend(systemLogs, "Schema registered: " \o pair[1]
                                                \o " v" \o pair[2])
    /\ UNCHANGED <<op, templates, activeTheme, translations, calls, databaseVars,
                   migratorVars, pluginList, menus, loaderVars, sweep, storeVars,
                   homeVars>>

\* The lines a sweep pushes to its logs.
SystemLine == [kind |-> "SYSTEM"]
InfoLine == [kind |-> "INFO"]
FatalLine == [kind |-> "FATAL"]
CriticalLine == [kind |-> "CRITICAL"]
OutcomeLine(i, result) ==
    [kind |-> "OUTCOME", record |-> i, slug |-> result.slug,
     version |-> result.version, out |-> result.out]

SweepFrame == <<op, registryVars, schemas, pluginList, menus, loaderVars, storeVars,
                homeVars>>

\* The request arrives; without a bound database it is answered 500 at once.
SweepStart ==
    /\ sweep.pc \in {"none", "done"}
    /\ \A p \in Callers : mig[p].pc = "idle"
    /\ Len(outs) < MaxCalls
    /\ \E bound \in BOOLEAN :
        sweep' = IF bound
                     THEN [pc |-> "init", logs |-> <<>>, first |-> Len(outs) + 1]
                 ELSE [pc |-> "done", logs |-> <<CriticalLine>>,
                       first |-> Len(outs) + 1, status |-> 500,
                       ready |-> FALSE, records |-> Len(schemas)]
    /\ UNCHANGED <<SweepFrame, databaseVars, migratorVars>>

\* SweepInit going on to the loop after initSystem threw.
SweepInitGoesOn ==
    /\ sweep.pc = "init"
    /\ \E ok \in BOOLEAN :
        /\ ledgerTable' = (ledgerTable \/ ok)
        /\ sweep' = [sweep EXCEPT
                        !.pc = "loop",
                        !.logs = IF ~ok THEN <<FatalLine>>
                                 ELSE IF Len(getSchemas) = 0
                                     THEN <<SystemLine, InfoLine>>
                                 ELSE <<SystemLine>>]
                     @@ [i |-> 1]
    /\ UNCHANGED <<SweepFrame, ledger, sent, applied, migratorVars>>

\* await migrator.initSystem(), and what follows it up to the loop.
SweepInit ==
    /\ sweep.pc = "init"
    /\ \E ok \in BOOLEAN :
        /\ ledgerTable' = (ledgerTable \/ ok)
        /\ sweep' = IF ok
                        THEN [sweep EXCEPT
                                !.pc = "loop",
                                !.logs = IF Len(getSchemas) = 0
                                             THEN <<SystemLine, InfoLine>>
                                         ELSE <<SystemLine>>]
                              @@ [i |-> 1]
                    ELSE [sweep EXCEPT !.pc = "done", !.logs = <<FatalLine>>]
                         @@ [status |-> 200, ready |-> FALSE,
                             records |-> Len(schemas)]
    /\ UNCHANGED <<SweepFrame, ledger, sent, applied, migratorVars>>

\* SweepApply walking the list from its end.
SweepApplyBackwards(p) ==
    /\ sweep.pc = "loop"
    /\ sweep.i <= Len(getSchemas)
    /\ mig[p].pc = "idle"
    /\ LET s == getSchemas[Len(getSchemas) + 1 - sweep.i]
       IN mig' = [mig EXCEPT ![p] = [pc |-> "lookup", slug |-> s.slug,
                                     version |-> s.version, sql |-> s.sql,
                                     faults |-> {}, down |-> {}, caller |-> p,
                                     ledger0 |-> ledger, table0 |-> ledgerTable]]
    /\ sweep' = [sweep EXCEPT !.pc = "await"]
    /\ UNCHANGED <<SweepFrame, databaseVars, outs>>

\* for (const s of schemas): applyMigration(s.slug, s.version, s.sql) is
\* entered for the next record.
SweepApply(p) ==
    /\ sweep.pc = "loop"
    /\ sweep.i <= Len(getSchemas)
    /\ mig[p].pc = "idle"
    /\ LET s == getSchemas[sweep.i]
       IN mig' = [mig EXCEPT ![p] = [pc |-> "lookup", slug |-> s.slug,
                                     version |-> s.version, sql |-> s.sql,
                                     faults |-> {}, down |-> {}, caller |-> p,
                                     ledger0 |-> ledger, table0 |-> ledgerTable]]
    /\ sweep' = [sweep EXCEPT !.pc = "await"]
    /\ UNCHANGED <<SweepFrame, databaseVars, outs>>

\* SweepCollect breaking out of the loop on an ERROR outcome.
SweepCollectStopsOnError(p) ==
    /\ sweep.pc = "await"
    /\ mig[p].pc = "idle"
    /\ LET result == outs[Len(outs)]
       IN sweep' = IF result.out \in {"ERROR_SQL", "ERROR_FATAL"}
                       THEN [sweep EXCEPT
                               !.pc = "done",
                               !.logs = Append(@, OutcomeLine(sweep.i, result))]
                            @@ [status |-> 200, ready |-> TRUE,
                                records |-> Len(schemas)]
                   ELSE [sweep EXCEPT
                           !.pc = "loop", !.i = @ + 1,
                           !.logs = Append(@, OutcomeLine(sweep.i, result))]
    /\ UNCHANGED <<SweepFrame, databaseVars, migratorVars>>

\* The call returned: its outcome string is pushed as one line, whatever it
\* is, and the loop goes on.
SweepCollect(p) ==
    /\ sweep.pc = "await"
    /\ mig[p].pc = "idle"
    /\ LET result == outs[Len(outs)]
       IN sweep' = [sweep EXCEPT
                      !.pc = "loop", !.i = @ + 1,
                      !.logs = Append(@, OutcomeLine(sweep.i, result))]
    /\ UNCHANGED <<SweepFrame, databaseVars, migratorVars>>

\* The loop is over: return c.json({ logs }).
SweepEnd ==
    /\ sweep.pc = "loop"
    /\ sweep.i > Len(getSchemas)
    /\ sweep' = [pc |-> "done", logs |-> sweep.logs,
                 first |-> sweep.first, status |-> 200, ready |-> TRUE,
                 records |-> Len(schemas)]
    /\ UNCHANGED <<SweepFrame, databaseVars, migratorVars>>

\* The applyMigration calls of request p that have returned.
ReturnedTo(p) == SelectSeq(outs, LAMBDA r : r.caller = p)

\* Requests to the migration endpoint served together: request p awaits
\* initSystem; when it throws, the request ends with its FATAL line.
ConcurrentInit(p) ==
    /\ mig[p].pc = "idle"
    /\ ReturnedTo(p) = <<>>
    /\ \E ok \in BOOLEAN :
        /\ ledgerTable' = (ledgerTable \/ ok)
        /\ mig' = [mig EXCEPT ![p] = IF ok THEN [pc |-> "ready"] ELSE Idle]
    /\ UNCHANGED <<op, registryVars, siteVars, ledger, sent, applied, outs>>

\* Request p enters applyMigration for the next record of the list, the
\* ones before it having returned.
ConcurrentApply(p) ==
    /\ \/ mig[p].pc = "ready"
       \/ mig[p].pc = "idle" /\ ReturnedTo(p) # <<>>
    /\ Len(ReturnedTo(p)) < Len(getSchemas)
    /\ Len(outs) + Cardinality({q \in Sweepers :
                                  mig[q].pc \notin {"idle", "ready"}}) < MaxCalls
    /\ LET s == getSchemas[Len(ReturnedTo(p)) + 1]
       IN mig' = [mig EXCEPT ![p] = [pc |-> "lookup", slug |-> s.slug,
                                     version |-> s.version, sql |-> s.sql,
                                     faults |-> {}, down |-> {}, caller |-> p,
                                     ledger0 |-> ledger, table0 |-> ledgerTable]]
    /\ UNCHANGED <<op, registryVars, siteVars, databaseVars, outs>>

(***************************************************************************)
(* The module loader (src/src/index.ts, 19-81) and the modules it is given *)
(* (modules.gen, written by the generator of src/unnamed/part_000).  A     *)
(* module is its manifest and its mount function; the mount functions are  *)
(* those of the repository's modules, named by the module they belong to.  *)
(***************************************************************************)
Manifest(kind, slug, version, requires) ==
    [type |-> kind, slug |-> slug, version |-> version, requires |-> requires]

Module(manifest, mountFn) == ModuleOf(manifest) @@ [default |-> mountFn]

\* Markup of the templates the modules register: split into its literal
\* text and its {{key}} placeholders by Tokens.
LandingHtml == "<landing>{{plugin_count}}{{status}}"
PlainPageHtml == "<page>"
PublicPageHtml == "<page>{{title}}{{content}}{{title}}"

PagesManager ==
    Module(Manifest(Str("plugin"), Str("pages-manager"), Str("1.0.2"),
                    Str(<<"1", ".", "0", ".", "0">>)), "pages-manager")
NebulaTheme ==
    Module(Manifest(Str("theme"), Str("nebula-theme"), Str("1.0.0"),
                    Str(<<"1", ".", "0", ".", "0">>)), "nebula-theme")
\* The default theme and the language pack declare minCoreVersion, and no
\* requires.
DefaultTheme ==
    Module(Manifest(Str("theme"), Str("default"), Str("1.0.0"), Undefined),
           "default")
LangId ==
    Module(Manifest(Str("plugin"), Str("lang-id"), Str("1.0.0"), Undefined),
           "lang-id")
\* A folder whose index exports no manifest.
NoManifest == [t |-> "object", manifest |-> Undefined]
\* A theme of another author, with a public_page template.
PaperTheme(html) ==
    Module(Manifest(Str("theme"), Str("paper"), Str("2.1.0"),
                    Str(<<"1", ".", "9", ".", "9">>)), "paper:" \o html)

ModuleValues ==
    {PagesManager, NebulaTheme, DefaultTheme, LangId, NoManifest,
     PaperTheme(PlainPageHtml), PaperTheme(PublicPageHtml)}

\* The Registry tables a mount function can write.
Reg == [templates |-> templates, activeTheme |-> activeTheme,
        translations |-> translations, systemLogs |-> systemLogs,
        schemas |-> schemas, pluginList |-> pluginList,
        menus |-> menus]

\* Registry.log
log(reg, message) == [reg EXCEPT !.systemLogs = LogAppend(@, message)]

\* registerPlugin without the includes test.
registerPluginAlways(reg, name) ==
    log([reg EXCEPT !.pluginList = Append(@, name)], "Plugin mounted: " \o name)

\* Registry.registerPlugin: a name already in the list is not added again.
registerPlugin(reg, name) ==
    IF \E i \in 1..Len(reg.pluginList) : reg.pluginList[i] = name THEN reg
    ELSE log([reg EXCEPT !.pluginList = Append(@, name)],
             "Plugin mounted: " \o name)

getPluginCount == Len(pluginList)

\* Registry.registerMenu
registerMenu(reg, title, path, category) ==
    [reg EXCEPT !.menus = Append(@, [title |-> title, path |-> path,
                                     category |-> category])]

\* Registry.getMenus(category): all the items without a category.
getMenus(category) ==
    IF Truthy(category)
        THEN SelectSeq(menus, LAMBDA m : StrictEq(Str(m.category), category))
    ELSE menus

\* Registry.registerSchema with its log line.
registerSchemaIn(reg, slug, version, sql) ==
    log([reg EXCEPT !.schemas = registerSchema(@, slug, version, sql)],
        "Schema registered: " \o slug \o " v" \o version)

\* Registry.setActiveTheme with its log line.
setActiveTheme(reg, name) ==
    log([reg EXCEPT !.activeTheme = name], "Theme switched to: " \o name)

\* m.default(app): what each mount function does to the Registry.
mount(mountFn, reg) ==
    CASE mountFn = "pages-manager" ->
            log(registerMenu(
                    registerSchemaIn(log(reg, "Mounting Pages Manager..."),
                                     "pages-manager", "1.0.2", <<"s", ";">>),
                    "All Pages", "/admin/pages", "plugin"),
                "Pages Manager Mounted [OK]")
      [] mountFn = "nebula-theme" ->
            setActiveTheme(
                registerMenu(
                    [reg EXCEPT !.templates =
                        registerThemeView(@, "nebula-theme", "landing",
                                          LandingHtml)],
                    "Nebula Theme", "/admin/theme/nebula", "theme"),
                "nebula-theme")
      [] mountFn = "default" ->
            [reg EXCEPT !.templates =
                registerThemeView(@, "default", "landing", LandingHtml)]
      [] mountFn = "lang-id" ->
            [reg EXCEPT !.translations =
                registerTranslation(@, "id", [k \in {"welcome"} |-> "Selamat"])]
      [] mountFn = "paper:" \o PlainPageHtml ->
            setActiveTheme(
                [reg EXCEPT !.templates =
                    registerThemeView(@, "paper", "public_page", PlainPageHtml)],
                "paper")
      [] mountFn = "paper:" \o PublicPageHtml ->
            setActiveTheme(
                [reg EXCEPT !.templates =
                    registerThemeView(@, "paper", "public_page", PublicPageHtml)],
                "paper")
      [] OTHER -> reg

\* Inputs of the Registry calls made outside the loader's walk.
PluginNames == {"pages-manager", "site-manager"}
MenuItems ==
    {[title |-> "All Pages", path |-> "/admin/pages", category |-> "plugin"],
     [title |-> "Nebula Theme", path |-> "/admin/theme/nebula",
      category |-> "theme"]}
Messages == {"[Site Manager] Identity updated", "Site Manager Mounted [OK]"}

\* Registry.registerPlugin(name), as the site manager's mount calls it.
RegisterPlugin ==
    /\ CanRegister
    /\ \E name \in PluginNames :
        LET reg == registerPlugin(Reg, name)
        IN /\ pluginList' = reg.pluginList
           /\ systemLogs' = reg.systemLogs
           /\ calls' = Append(calls, [name |-> "registerPlugin",
                                      plugin |-> name])
    /\ UNCHANGED <<op, templates, activeTheme, translations, databaseVars,
                   migratorVars, schemas, menus, loaderVars, sweep, storeVars,
                   homeVars>>

\* Registry.registerMenu(menu)
RegisterMenu ==
    /\ CanRegister
    /\ \E item \in MenuItems :
        /\ menus' = registerMenu(Reg, item.title, item.path,
                                 item.category).menus
        /\ calls' = Append(calls, [name |-> "registerMenu", item |-> item])
    /\ UNCHANGED <<op, templates, activeTheme, translations, systemLogs,
                   databaseVars, migratorVars, schemas, pluginList, loaderVars,
                   sweep, storeVars, homeVars>>

\* Registry.log(message), called directly.
LogLine ==
    /\ CanRegister
    /\ \E message \in Messages :
        /\ systemLogs' = log(Reg, message).systemLogs
        /\ calls' = Append(calls, [name |-> "log", message |-> message])
    /\ UNCHANGED <<op, templates, activeTheme, translations, databaseVars,
                   migratorVars, siteVars>>

\* Modules whose manifest is well-formed and declares a kind the core does
\* not know, or none.
WidgetModule ==
    Module(Manifest(Str("widget"), Str("clock"), Str("1.0.0"),
                    Str(<<"1", ".", "0", ".", "0">>)), "clock")
KindlessModule ==
    Module(Manifest(Undefined, Str("legacy"), Str("1.0.0"),
                    Str(<<"1", ".", "0", ".", "0">>)), "legacy")
KindModules == {WidgetModule, KindlessModule, PagesManager, NebulaTheme, LangId}

\* The generator lists one more module folder, of any declared kind.
DiscoverKind ==
    /\ cursor = 0
    /\ Len(modules) < MaxModules
    /\ \E mod \in KindModules : modules' = Append(modules, mod)
    /\ UNCHANGED <<op, registryVars, databaseVars, migratorVars, schemas,
                   pluginList, menus, cursor, mounts, sweep, storeVars, homeVars>>

\* The generator lists one more module folder.
Discover ==
    /\ cursor = 0
    /\ Len(modules) < MaxModules
    /\ \E mod \in ModuleValues : modules' = Append(modules, mod)
    /\ UNCHANGED <<op, registryVars, databaseVars, migratorVars, schemas,
                   pluginList, menus, cursor, mounts, sweep, storeVars, homeVars>>

\* The process starts: the core registers its translations and its schema.
Boot ==
    /\ cursor = 0
    /\ cursor' = 1
    /\ translations' = registerTranslation(translations, "en",
                                           [k \in {"welcome"} |-> "Welcome"])
    /\ LET reg == registerSchemaIn(Reg, "core-system", "1.0.0",
                                   <<"s", ";", " ", "s">>)
       IN /\ schemas' = reg.schemas
          /\ systemLogs' = reg.systemLogs
    /\ UNCHANGED <<op, templates, activeTheme, calls, databaseVars, migratorVars,
                   pluginList, menus, modules, mounts, sweep, storeVars, homeVars>>

\* The loader's callback mounting every module that has a manifest.
LoadedUnchecked(mod, i) ==
    IF Truthy(mod) /\ Truthy(mod.manifest)
        THEN LET type == mod.manifest.type
                 slug == mod.manifest.slug.v
                 version == mod.manifest.version.v
                 listed == IF StrictEq(type, Str("plugin"))
                               THEN registerPlugin(Reg, slug)
                           ELSE Reg
                 mounted == mount(mod.default, listed)
             IN [reg |-> log(mounted, "Module mounted: " \o slug
                                      \o " v" \o version),
                 mounts |-> Append(mounts, i)]
    ELSE [reg |-> Reg, mounts |-> mounts]

\* The Registry and the mount record after the loader's callback on mod, the
\* module at position i.
Loaded(mod, i) ==
    IF Truthy(mod) /\ Truthy(mod.manifest)
        THEN LET type == mod.manifest.type
                 slug == mod.manifest.slug.v
                 version == mod.manifest.version.v
             IN IF validate(mod, type) = Valid
                    THEN LET listed == IF StrictEq(type, Str("plugin"))
                                           THEN registerPlugin(Reg, slug)
                                       ELSE Reg
                             mounted == mount(mod.default, listed)
                         IN [reg |-> log(mounted, "Module mounted: " \o slug
                                                  \o " v" \o version),
                             mounts |-> Append(mounts, i)]
                ELSE [reg |-> Reg, mounts |-> mounts]
    ELSE [reg |-> Reg, mounts |-> mounts]

\* modules.forEach: the callback runs on the next module of the list.
LoadModule ==
    /\ cursor >= 1
    /\ cursor <= Len(modules)
    /\ LET after == Loaded(modules[cursor], cursor)
       IN /\ templates' = after.reg.templates
          /\ activeTheme' = after.reg.activeTheme
          /\ translations' = after.reg.translations
          /\ systemLogs' = after.reg.systemLogs
          /\ schemas' = after.reg.schemas
          /\ pluginList' = after.reg.pluginList
          /\ menus' = after.reg.menus
          /\ mounts' = after.mounts
    /\ cursor' = cursor + 1
    /\ UNCHANGED <<op, calls, databaseVars, migratorVars, modules, sweep,
                   storeVars, homeVars>>

\* Whether the loader has walked the whole list.
ModulesLoaded == cursor > Len(modules)

(***************************************************************************)
(* The tables the root route reads: core_settings (created and seeded by   *)
(* the core schema, src/src/index.ts, 26-38) and static_pages (the pages   *)
(* plugin, src/src/plugins/pages/index.ts).  They change through request    *)
(* handlers, which are served once the modules are loaded.                 *)
(***************************************************************************)
HomeTypes == {Str("default"), Str("blog"), Str("page")}
TargetIds == {Str(""), Str("5")}
PageRows == {[id |-> "5", title |-> "Hi", content |-> "Body", slug |-> "hi"]}

\* The core schema: CREATE TABLE IF NOT EXISTS core_settings and INSERT OR
\* IGNORE of the default rows.
coreSchemaApplied(table) ==
    IF table.exists THEN table
    ELSE [exists |-> TRUE, homepage_type |-> Str("default"),
          homepage_target_id |-> Str("")]

\* What a setup request supplies as master_key (a text field, or nothing, or
\* an uploaded file) and what the deployment has as MASTER_KEY.
InputKeys == {Undefined, Str(""), Str("k1"), Str("k2"), [t |-> "object"]}
MasterKeys == {Undefined, Str(""), Str("k1")}

\* The setup handler comparing the keys without the test for an empty one.
setupNoEmptyCheck(inputKey, masterKey, table, ok) ==
    IF ~StrictEq(inputKey, masterKey)
        THEN [status |-> 401, statements |-> <<>>, settings |-> table]
    ELSE LET coreSchema == getSchema("core-system")
             adminCheck == ok /\ table.exists
         IN [status |-> 200,
             statements |->
                (IF Truthy(coreSchema) THEN <<"core schema">> ELSE <<>>)
                \o <<"select admin_email">>
                \o (IF adminCheck THEN <<>> ELSE <<"insert defaults">>),
             settings |-> IF Truthy(coreSchema) /\ ok
                              THEN coreSchemaApplied(table)
                          ELSE table]

\* admin.post('/setup') on the settings table, the store answering (ok) or
\* failing the statements: the response status, the statements sent to the
\* database and the table afterwards.  Database.raw and findOne report a
\* failure of the store and do not throw; the default rows are inserted
\* when the admin_email row, which only a setup that went through inserts,
\* is not found.
setup(inputKey, masterKey, table, ok) ==
    IF ~Truthy(inputKey) \/ ~StrictEq(inputKey, masterKey)
        THEN [status |-> 401, statements |-> <<>>, settings |-> table]
    ELSE LET coreSchema == getSchema("core-system")
             adminCheck == ok /\ table.exists
         IN [status |-> 200,
             statements |->
                (IF Truthy(coreSchema) THEN <<"core schema">> ELSE <<>>)
                \o <<"select admin_email">>
                \o (IF adminCheck THEN <<>> ELSE <<"insert defaults">>),
             settings |-> IF Truthy(coreSchema) /\ ok
                              THEN coreSchemaApplied(table)
                          ELSE table]

\* The pair of the record getSchema('core-system') finds.
CorePair ==
    LET coreSchema == getSchema("core-system")
    IN <<coreSchema.slug, coreSchema.version>>

\* The executions counted so far and those of a setup request that sent the
\* statements: the core schema goes through db.raw, past the Migrator and
\* its ledger.
Executed(counts, statements, ok) ==
    IF statements # <<>> /\ statements[1] = "core schema" /\ ok
        THEN [counts EXCEPT ![CorePair] = @ + 1]
    ELSE counts

\* POST /admin/setup served in one step, as the root requests see it: the
\* settings table afterwards, the request and the count of its executions
\* not kept.
Setup ==
    /\ ModulesLoaded
    /\ \E inputKey \in InputKeys, masterKey \in MasterKeys, ok \in BOOLEAN :
        settings' = setup(inputKey, masterKey, settings, ok).settings
    /\ UNCHANGED <<op, registryVars, databaseVars, migratorVars, schemas,
                   pluginList, menus, loaderVars, sweep, pages, homeVars>>

\* POST /admin/setup arrives with its form field.
CallSetup ==
    /\ ModulesLoaded
    /\ sent[CorePair] < MaxCalls
    /\ IF op.name = "none" THEN TRUE ELSE ~IsPending(op.ret)
    /\ \E inputKey \in InputKeys, masterKey \in MasterKeys :
        op' = [name |-> "setup", inputKey |-> inputKey, masterKey |-> masterKey,
               ret |-> Pending]
    /\ UNCHANGED <<registryVars, siteVars, databaseVars, migratorVars>>

\* The setup handler runs to its response.
SetupReturn ==
    /\ op.name = "setup"
    /\ IsPending(op.ret)
    /\ \E ok \in BOOLEAN :
        LET done == setup(op.inputKey, op.masterKey, settings, ok)
        IN /\ settings' = done.settings
           /\ op' = [op EXCEPT !.ret = [status |-> done.status,
                                        statements |-> done.statements]]
           /\ sent' = Executed(sent, done.statements, TRUE)
           /\ applied' = Executed(applied, done.statements, ok)
    /\ UNCHANGED <<registryVars, ledgerTable, ledger, migratorVars, schemas,
                   pluginList, menus, loaderVars, sweep, pages, homeVars>>

\* The settings-save endpoint upserts the homepage rows.
SaveHomepage ==
    /\ ModulesLoaded
    /\ settings.exists
    /\ \E type \in HomeTypes, target \in TargetIds :
        settings' = [settings EXCEPT !.homepage_type = type,
                                     !.homepage_target_id = target]
    /\ UNCHANGED <<op, registryVars, databaseVars, migratorVars, schemas,
                   pluginList, menus, loaderVars, sweep, pages, homeVars>>

\* The pages schema is applied: CREATE TABLE IF NOT EXISTS static_pages.
MigratePages ==
    /\ ModulesLoaded
    /\ ~pages.exists
    /\ pages' = [exists |-> TRUE, rows |-> {}]
    /\ UNCHANGED <<op, registryVars, databaseVars, migratorVars, schemas,
                   pluginList, menus, loaderVars, sweep, settings, homeVars>>

\* POST /admin/pages/save without id: INSERT INTO static_pages.
SavePage ==
    /\ ModulesLoaded
    /\ pages.exists
    /\ \E row \in PageRows :
        /\ row \notin pages.rows
        /\ pages' = [pages EXCEPT !.rows = @ \cup {row}]
    /\ UNCHANGED <<op, registryVars, databaseVars, migratorVars, schemas,
                   pluginList, menus, loaderVars, sweep, settings, homeVars>>

\* POST /admin/pages/delete: DELETE FROM static_pages WHERE id = ?
DeletePage ==
    /\ ModulesLoaded
    /\ pages.exists
    /\ \E row \in pages.rows : pages' = [pages EXCEPT !.rows = @ \ {row}]
    /\ UNCHANGED <<op, registryVars, databaseVars, migratorVars, schemas,
                   pluginList, menus, loaderVars, sweep, settings, homeVars>>

\* Database.findOne("SELECT value FROM core_settings WHERE key = ?"): the
\* row, or null when there is none or the query fails.
findOneSetting(key, ok) ==
    IF ok /\ settings.exists
        THEN [t |-> "object", value |-> settings[key]]
    ELSE Null

\* Database.findOne("SELECT * FROM static_pages WHERE id = ?", [id])
findOnePage(id, ok) ==
    IF ok /\ pages.exists /\ \E row \in pages.rows : row.id = id
        THEN [t |-> "object"] @@ (CHOOSE row \in pages.rows : row.id = id)
    ELSE Null

\* row?.value
ValueOf(row) == IF Truthy(row) THEN row.value ELSE Undefined

(***************************************************************************)
(* ViewEngine.render (src/src/core/security.ts, 76-89) and the root route  *)
(* (src/src/index.ts, 93-164).  Markup is a sequence of tokens: literal    *)
(* text and {{key}} placeholders.                                          *)
(***************************************************************************)
Tokens(html) ==
    CASE html = "" -> <<>>
      [] html = LandingHtml -> <<"<landing>", "{{plugin_count}}", "{{status}}">>
      [] html = PublicPageHtml ->
            <<"<page>", "{{title}}", "{{content}}", "{{title}}">>
      [] html = TemplateHtml ->
            <<"<t>", "{{a}}", "{{b}}", "{{a}}", "{{theme_name}}", "{{year}}">>
      [] OTHER -> <<html>>

Placeholder(key) == "{{" \o key \o "}}"

\* tokens.replace(placeholder, text): the first occurrence only.
ReplaceFirst(tokens, placeholder, text) ==
    LET at == {i \in 1..Len(tokens) : tokens[i] = placeholder}
    IN IF at = {} THEN tokens
       ELSE [tokens EXCEPT ![CHOOSE i \in at : \A j \in at : i <= j] = text]

\* Whether new RegExp(`{{${key}}}`) matches the token: the key is read as a
\* regular expression, in which a dot stands for any one character.
OneCharKeys == {"a", "b", "."}
PatternMatches(key, token) ==
    IF key = "." THEN token \in {Placeholder(k) : k \in OneCharKeys}
    ELSE token = Placeholder(key)

\* What String.prototype.replace puts in for the replacement string text:
\* $& is the matched text and $$ a dollar sign.
ReplacementText(text, matched) ==
    CASE text = "$&" -> matched
      [] text = "$$" -> "$"
      [] OTHER -> text

\* tokens.replace(new RegExp(`{{${key}}}`, 'g'), text): every match.
ReplaceAll(tokens, key, text) ==
    [i \in 1..Len(tokens) |->
        IF PatternMatches(key, tokens[i])
            THEN ReplacementText(text, tokens[i])
        ELSE tokens[i]]

RECURSIVE Join(_)
\* String(array): the elements joined by commas.
Join(list) ==
    IF list = <<>> THEN ""
    ELSE IF Len(list) = 1 THEN list[1]
    ELSE list[1] \o "," \o Join(Tail(list))

RECURSIVE Substituted(_, _, _)
\* Object.keys(finalData).forEach: one global replace per key, in key order.
Substituted(tokens, keys, finalData) ==
    IF keys = <<>> THEN tokens
    ELSE Substituted(ReplaceAll(tokens, keys[1], finalData[keys[1]]),
                     Tail(keys), finalData)

\* ViewEngine.render with the engine's two fields left out of the merge.
renderWithoutEngineFields(viewName, keys, data) ==
    LET template == getView(viewName)
    IN IF ~Truthy(template)
           THEN [kind |-> "html", status |-> 500, view |-> "error",
                 body |-> <<"Error: View '", viewName, "' not found in '",
                            getActiveThemeName, "'">>,
                 data |-> data]
       ELSE IF template.t # "string"
           THEN [kind |-> "exception", status |-> 500, view |-> "none",
                 body |-> <<>>, data |-> data]
       ELSE [kind |-> "html", status |-> 200, view |-> viewName,
             body |-> Substituted(Tokens(template.v), keys, data),
             data |-> data]

\* ViewEngine.render(c, viewName, data), for a payload data whose keys were
\* written in the order keys and whose values are as String() gives them.
\* { ...data, theme_name, year } keeps the payload's key order, puts the
\* engine's two keys after it unless the payload has them, and takes the
\* engine's values.  A template that is not a string has no replace method:
\* the call throws.
renderWith(viewName, keys, data) ==
    LET template == getView(viewName)
    IN IF ~Truthy(template)
           THEN [kind |-> "html", status |-> 500, view |-> "error",
                 body |-> <<"Error: View '", viewName, "' not found in '",
                            getActiveThemeName, "'">>,
                 data |-> data]
       ELSE IF template.t # "string"
           THEN [kind |-> "exception", status |-> 500, view |-> "none",
                 body |-> <<>>, data |-> data]
       ELSE LET finalData == [theme_name |-> getActiveThemeName,
                              year |-> "year"] @@ data
                finalKeys ==
                    keys \o SelectSeq(<<"theme_name", "year">>,
                                      LAMBDA k : k \notin DOMAIN data)
            IN [kind |-> "html", status |-> 200, view |-> viewName,
                body |-> Substituted(Tokens(template.v), finalKeys, finalData),
                data |-> data]

\* The render call of the root route, with the landing payload.
render(viewName, data) ==
    renderWith(viewName,
               <<"plugin_count", "core_version", "system_logs", "status">>,
               data)

\* The payloads render is called with: the keys in the order written.
Payload(keys, data) == [keys |-> keys, data |-> data]
Payloads ==
    {Payload(<<>>, EmptyMap),
     Payload(<<"a">>, [a |-> "V"]),
     Payload(<<"a", "b">>, [a |-> "V", b |-> "W"]),
     Payload(<<"b", "c">>, [b |-> "W", c |-> "X"]),
     Payload(<<"a">>, [a |-> "$&"]),
     Payload(<<"a", "b">>, [a |-> "{{b}}", b |-> "W"]),
     Payload(<<"b", "a">>, [a |-> "{{b}}", b |-> "W"]),
     Payload(<<".">>, "." :> "V"),
     Payload(<<"theme_name", "a", "year">>,
             [theme_name |-> "mine", a |-> "V", year |-> "1999"])}
RenderedViews == {"landing", "constructor"}

\* ViewEngine.render is called.
CallRender ==
    /\ IF op.name = "none" THEN TRUE ELSE ~IsPending(op.ret)
    /\ \E viewName \in RenderedViews, payload \in Payloads :
        op' = [name |-> "render", view |-> viewName, keys |-> payload.keys,
               data |-> payload.data, ret |-> Pending]
    /\ UNCHANGED <<registryVars, siteVars, databaseVars, migratorVars>>

\* ViewEngine.render runs to completion.
Render ==
    /\ op.name = "render"
    /\ IsPending(op.ret)
    /\ op' = [op EXCEPT !.ret = renderWith(op.view, op.keys, op.data)]
    /\ UNCHANGED <<registryVars, siteVars, databaseVars, migratorVars>>

\* The built-in markup for a page when no public_page template resolves.
FallbackPage(page) ==
    <<"<title>", page.title, "</title>", "<h1>", page.title, "</h1>",
      "<div>", page.content, "</div>">>

\* CASE 2 rendering the template whatever getView returned.
renderPageNoFallback(template, page) ==
    [kind |-> "html", status |-> 200, view |-> "page",
     body |-> ReplaceFirst(
                ReplaceFirst(
                    ReplaceFirst(IF Truthy(template) THEN Tokens(template.v)
                                 ELSE <<>>,
                                 "{{title}}", page.title),
                    "{{content}}", page.content),
                "{{slug}}", page.slug),
     data |-> page]

\* CASE 2 of the root route: the page through the public_page template, or
\* through the fallback markup when getView returned nothing.
renderPage(template, page) ==
    [kind |-> "html", status |-> 200, view |-> "page",
     body |-> ReplaceFirst(
                ReplaceFirst(
                    ReplaceFirst(IF Truthy(template) THEN Tokens(template.v)
                                 ELSE FallbackPage(page),
                                 "{{title}}", page.title),
                    "{{content}}", page.content),
                "{{slug}}", page.slug),
     data |-> page]

Redirect(path) == [kind |-> "redirect", status |-> 302, location |-> path]

HomeFrame == <<op, templates, activeTheme, translations, calls, databaseVars,
               migratorVars, schemas, pluginList, menus, loaderVars, sweep, storeVars>>

\* A root request arrives.
HomeStart ==
    /\ ModulesLoaded
    /\ home.pc \in {"none", "done"}
    /\ served < MaxRequests
    /\ served' = served + 1
    /\ home' = [pc |-> "type", reads |-> <<>>, homeTypeSetting |-> Undefined,
                homeTargetSetting |-> Undefined, page |-> Undefined,
                state |-> "A", readsAtD |-> 0, response |-> Undefined]
    /\ UNCHANGED <<HomeFrame, systemLogs>>

\* State A: the homepage_type setting is read.
HomeReadType ==
    /\ home.pc = "type"
    /\ \E ok \in BOOLEAN :
        home' = [home EXCEPT
                   !.pc = "target",
                   !.reads = Append(@, "core_settings"),
                   !.homeTypeSetting = findOneSetting("homepage_type", ok)]
    /\ UNCHANGED <<HomeFrame, systemLogs, served>>

\* HomeReadTarget without CASE 1.
HomeReadTargetNoBlog ==
    /\ home.pc = "target"
    /\ \E ok \in BOOLEAN :
        LET homeTargetSetting == findOneSetting("homepage_target_id", ok)
            homeType == OrElse(ValueOf(home.homeTypeSetting), Str("default"))
            read == [home EXCEPT !.reads = Append(@, "core_settings"),
                                 !.homeTargetSetting = homeTargetSetting]
        IN home' = IF /\ StrictEq(homeType, Str("page"))
                      /\ Truthy(ValueOf(homeTargetSetting))
                       THEN [read EXCEPT !.pc = "page", !.state = "C"]
                   ELSE IF StrictEq(homeType, Str("blog"))
                       THEN [read EXCEPT !.pc = "page", !.state = "C"]
                   ELSE [read EXCEPT !.pc = "D", !.state = "D",
                                     !.readsAtD = Len(read.reads)]
    /\ UNCHANGED <<HomeFrame, systemLogs, served>>

\* State A, second read, and the branch on the settings: CASE 1 redirects,
\* CASE 2 goes on to the page, anything else throws to the default landing.
HomeReadTarget ==
    /\ home.pc = "target"
    /\ \E ok \in BOOLEAN :
        LET homeTargetSetting == findOneSetting("homepage_target_id", ok)
            homeType == OrElse(ValueOf(home.homeTypeSetting), Str("default"))
            read == [home EXCEPT !.reads = Append(@, "core_settings"),
                                 !.homeTargetSetting = homeTargetSetting]
        IN home' = IF StrictEq(homeType, Str("blog"))
                       THEN [read EXCEPT !.pc = "done", !.state = "B",
                                         !.response = Redirect("/blog")]
                   ELSE IF /\ StrictEq(homeType, Str("page"))
                           /\ Truthy(ValueOf(homeTargetSetting))
                       THEN [read EXCEPT !.pc = "page", !.state = "C"]
                   ELSE [read EXCEPT !.pc = "D", !.state = "D",
                                     !.readsAtD = Len(read.reads)]
    /\ UNCHANGED <<HomeFrame, systemLogs, served>>

\* State C letting a failed lookup or an absent record out of the route as
\* an unhandled error.
HomeReadPagePropagates ==
    /\ home.pc = "page"
    /\ \E ok \in BOOLEAN :
        LET page == findOnePage(home.homeTargetSetting.value.v, ok)
            read == [home EXCEPT !.reads = Append(@, "static_pages"),
                                 !.page = page]
        IN home' = IF Truthy(page)
                       THEN [read EXCEPT
                               !.pc = "done",
                               !.response = renderPage(getView("public_page"),
                                                       page)]
                   ELSE [read EXCEPT
                           !.pc = "done",
                           !.response = [kind |-> "exception", status |-> 500]]
    /\ UNCHANGED <<HomeFrame, systemLogs, served>>

\* State C: the page is read; found, it is rendered; a failed lookup or an
\* absent record throws to the default landing.
HomeReadPage ==
    /\ home.pc = "page"
    /\ \E ok \in BOOLEAN :
        LET page == findOnePage(home.homeTargetSetting.value.v, ok)
            read == [home EXCEPT !.reads = Append(@, "static_pages"),
                                 !.page = page]
        IN home' = IF Truthy(page)
                       THEN [read EXCEPT
                               !.pc = "done",
                               !.response = renderPage(getView("public_page"),
                                                       page)]
                   ELSE [read EXCEPT !.pc = "D", !.state = "D",
                                     !.readsAtD = Len(read.reads)]
    /\ UNCHANGED <<HomeFrame, systemLogs, served>>

\* The landing data of State D.
LandingData(logs) ==
    [plugin_count |-> ToString(getPluginCount), core_version |-> "1.0.0",
     system_logs |-> Join(logs),
     status |-> "System Ready - Please configure Homepage in Admin"]

\* State D reading the site name from core_settings before it renders.
HomeDefaultReadsSettings ==
    /\ home.pc = "D"
    /\ LET logs == LogAppend(systemLogs,
                             "System Status: Rendering Default Landing Page.")
       IN /\ systemLogs' = logs
          /\ home' = [home EXCEPT !.pc = "done",
                                  !.reads = Append(@, "core_settings"),
                                  !.response = render("landing", LandingData(logs))]
    /\ UNCHANGED <<HomeFrame, served>>

\* State D switching the active theme back to the built-in one before it
\* renders.
HomeDefaultResetsTheme ==
    /\ home.pc = "D"
    /\ LET logs == LogAppend(systemLogs,
                             "System Status: Rendering Default Landing Page.")
       IN /\ systemLogs' = logs
          /\ activeTheme' = "nebula"
          /\ home' = [home EXCEPT !.pc = "done",
                                  !.response = render("landing", LandingData(logs))]
    /\ UNCHANGED <<op, templates, translations, calls, databaseVars,
                   migratorVars, schemas, pluginList, menus, loaderVars, sweep,
                   storeVars, served>>

\* State D, the catch block: the fallback is logged and the landing view
\* rendered from the Registry.
HomeDefault ==
    /\ home.pc = "D"
    /\ LET logs == LogAppend(systemLogs,
                             "System Status: Rendering Default Landing Page.")
       IN /\ systemLogs' = logs
          /\ home' = [home EXCEPT !.pc = "done",
                                  !.response = render("landing", LandingData(logs))]
    /\ UNCHANGED <<HomeFrame, served>>

(***************************************************************************)
(* Specifications.                                                         *)
(***************************************************************************)
\* A fresh process on a fresh database.
Init ==
    /\ op = [name |-> "none"]
    /\ templates = EmptyMap
    /\ activeTheme = "nebula"
    /\ translations = InitialTranslations
    /\ systemLogs = <<>>
    /\ calls = <<>>
    /\ ledgerTable = FALSE
    /\ ledger = <<>>
    /\ sent = [pair \in Pairs |-> 0]
    /\ applied = [pair \in Pairs |-> 0]
    /\ mig = [p \in Sweepers |-> Idle]
    /\ outs = <<>>
    /\ schemas = <<>>
    /\ pluginList = <<>>
    /\ menus = <<>>
    /\ modules = <<>>
    /\ cursor = 0
    /\ mounts = <<>>
    /\ sweep = [pc |-> "none"]
    /\ settings = NoTable
    /\ pages = NoTable
    /\ home = [pc |-> "none"]
    /\ served = 0

ValidatorNext == CallValidator \/ Validate \/ IsCompatible

ViewsNext == RegisterThemeView \/ RegisterView \/ SetActiveTheme

I18nNext == RegisterTranslation

MigratorNext ==
    \E p \in Callers :
        \/ InitSystem(p)
        \/ ApplyStart(p)
        \/ ApplyLookup(p)
        \/ ApplyExec(p)
        \/ ApplyInsert(p)

SweepNext ==
    \/ RegisterSchema
    \/ SweepStart
    \/ SweepInit
    \/ SweepEnd
    \/ \E p \in Callers :
        \/ SweepApply(p)
        \/ ApplyLookup(p)
        \/ ApplyExec(p)
        \/ ApplyInsert(p)
        \/ SweepCollect(p)

ConcurrentNext ==
    \/ RegisterSchema
    \/ \E p \in Sweepers :
        \/ ConcurrentInit(p)
        \/ ConcurrentApply(p)
        \/ ApplyLookup(p)
        \/ ApplyExec(p)
        \/ ApplyInsert(p)

LoaderNext == Discover \/ Boot \/ LoadModule

SetupNext == CallSetup \/ SetupReturn

DatabaseNext == CallRaw \/ RawReturn

KindsNext == DiscoverKind \/ Boot \/ LoadModule

KeysNext == RegisterKeyedThemeView \/ RegisterKeyedView

AdminNext ==
    \/ Boot
    \/ CallSetup
    \/ SetupReturn
    \/ SweepStart
    \/ SweepInit
    \/ SweepEnd
    \/ \E p \in Callers :
        \/ SweepApply(p)
        \/ ApplyLookup(p)
        \/ ApplyExec(p)
        \/ ApplyInsert(p)
        \/ SweepCollect(p)

TranslateNext == RegisterTranslation \/ CallT \/ TReturn

RenderNext == RegisterView \/ SetActiveTheme \/ CallRender \/ Render

RegistryNext ==
    \/ ViewsNext
    \/ RegisterPlugin
    \/ RegisterMenu
    \/ LogLine

StoreNext == Setup \/ SaveHomepage \/ MigratePages \/ SavePage \/ DeletePage

HomeNext ==
    \/ HomeStart
    \/ HomeReadType
    \/ HomeReadTarget
    \/ HomeReadPage
    \/ HomeDefault

Next == RegistryNext \/ RenderNext \/ SetupNext \/ DatabaseNext \/ TranslateNext \/ I18nNext \/ LoaderNext \/ StoreNext \/ HomeNext \/ ValidatorNext \/ ViewsNext \/ I18nNext \/ MigratorNext \/ SweepNext \/ ConcurrentNext \/ AdminNext \/ KeysNext \/ KindsNext

Spec == Init /\ [][Next]_vars

\* The Validator called on every module and kind.
SpecValidator == Init /\ [][ValidatorNext]_vars

\* The template table and the active-theme pointer under any registrations.
SpecViews == Init /\ [][ViewsNext]_vars

\* The translation table under any registrations.
SpecI18n == Init /\ [][I18nNext]_vars

\* The Registry under any sequence of writes to its template, theme,
\* plugin, menu and log tables.
SpecRegistry == Init /\ [][RegistryNext]_vars

\* The view engine called with any payload while views are registered and
\* the active theme changes.
SpecRender == Init /\ [][RenderNext]_vars

\* The loaded site receiving setup requests with any key.
SpecSetup == Init /\ [][LoaderNext \/ SetupNext]_vars

\* The loader's walk over module folders of any declared kind.
SpecKinds == Init /\ [][KindsNext]_vars

\* Templates registered under slugs and names that may contain ':'.
SpecKeys == Init /\ [][KeysNext]_vars

\* Translations are registered and texts are looked up through I18n.t.
SpecTranslate == Init /\ [][TranslateNext]_vars

\* Database.raw called with any schema text on a store that answers or fails.
SpecDatabase == Init /\ [][DatabaseNext]_vars

\* One caller applying migrations one after another.
SpecMigrator == Init /\ [][MigratorNext]_vars

\* The booted site receiving setup requests and migration sweeps, one after
\* another in any order.
SpecAdmin == Init /\ [][AdminNext]_vars

\* Schemas are registered and two migration sweeps run over them at once.
SpecConcurrent == Init /\ [][ConcurrentNext]_vars

\* The generator's list, the core registrations and the loader's walk.
SpecLoader == Init /\ [][LoaderNext]_vars

\* The loaded site serving root requests while the store changes.
SpecHome == Init /\ [][LoaderNext \/ StoreNext \/ HomeNext]_vars

\* Schemas are registered and migration sweeps run over them.
SpecSweep == Init /\ [][SweepNext]_vars


(***************************************************************************)
(* Migrator: the claims.                                                   *)
(***************************************************************************)
\* The returned calls for one (slug, version) pair, in order.
PairOuts(pair) ==
    SelectSeq(outs, LAMBDA o : <<o.slug, o.version>> = pair)

NextForPair(i) ==
    {j \in (i + 1)..Len(outs) :
        /\ <<outs[j].slug, outs[j].version>> = <<outs[i].slug, outs[i].version>>
        /\ \A k \in (i + 1)..(j - 1) :
            <<outs[k].slug, outs[k].version>> # <<outs[i].slug, outs[i].version>>}

\* C2: when the executor reports failure, applyMigration returns the ERROR
\* outcome and leaves the ledger as it was; a pair that had no row still has
\* none, and the next applyMigration for it runs the SQL through the executor
\* again and does not return SKIP.
C2_FailureNotRecorded ==
    \A i \in 1..Len(outs) :
        ("exec" \in outs[i].faults) =>
            /\ outs[i].out = "ERROR_SQL"
            /\ outs[i].ledgerUnchanged
            /\ ~outs[i].hadRow =>
                /\ ~outs[i].inLedger
                /\ \A j \in NextForPair(i) :
                    /\ outs[j].out # "SKIP"
                    /\ outs[j].rawCalled
                    /\ ~outs[j].blank => outs[j].sent = outs[i].sent + 1

\* An executor failure followed by a call for the same pair that ran the SQL
\* again, this time with SUCCESS.
C2_Witness ==
    \E i \in 1..Len(outs) :
        /\ outs[i].out = "ERROR_SQL"
        /\ ~outs[i].hadRow
        /\ \E j \in NextForPair(i) :
            outs[j].out = "SUCCESS" /\ outs[j].sent = outs[i].sent + 1

(***************************************************************************)
(* Validator: the claims.                                                  *)
(***************************************************************************)
Returned(name) == op.name = name /\ ~IsPending(op.ret)

HasManifest(module) == Truthy(module) /\ Truthy(module.manifest)

\* The leading component is one or more decimal digits and nothing else.
LeadingNumeric(s) ==
    LET part == FirstPart(s)
    IN part # <<>> /\ \A i \in 1..Len(part) : IsDigit(part[i], 10)

RECURSIVE Decimal(_)
\* The number a string of decimal digits denotes.
Decimal(s) ==
    IF s = <<>> THEN 0
    ELSE 10 * Decimal(SubSeq(s, 1, Len(s) - 1)) + DigitValue(s[Len(s)])

MajorOf(s) == Decimal(FirstPart(s))

\* Everything validate checks before compatibility is in order.
AdmissibleBut(module, type) ==
    /\ HasManifest(module)
    /\ Truthy(module.manifest.slug)
    /\ Truthy(module.manifest.version)
    /\ StrictEq(module.manifest.type, type)

\* C3: a module whose manifest lacks the compatibility field is invalid,
\* whatever its slug, version and kind and whatever kind is expected.
C3_MissingRequiresInvalid ==
    (/\ Returned("validate")
     /\ HasManifest(op.module)
     /\ op.module.manifest.requires = Undefined) =>
        /\ ~op.ret.threw
        /\ op.ret.val.isValid = FALSE

\* A manifest in order but for the missing compatibility field, rejected.
C3_Witness ==
    /\ Returned("validate")
    /\ AdmissibleBut(op.module, op.type)
    /\ op.module.manifest.requires = Undefined
    /\ op.ret = Invalid("strict")

\* C4: with a numeric leading component, a requirement is compatible exactly
\* when its major number equals the core's; for core 1.3.2 that admits 1.0.0
\* and 1.9.9 and rejects 2.0.0, and nothing after the first dot matters.
C4_MajorDecides ==
    /\ (/\ Returned("isCompatible")
        /\ op.requires.t = "string"
        /\ LeadingNumeric(op.requires.v)) =>
            op.ret = Return(MajorOf(op.requires.v) = MajorOf(CORE_VERSION))
    /\ (/\ Returned("validate")
        /\ AdmissibleBut(op.module, op.type)
        /\ op.module.manifest.requires.t = "string"
        /\ LeadingNumeric(op.module.manifest.requires.v)) =>
            /\ ~op.ret.threw
            /\ op.ret.val.isValid =
                (MajorOf(op.module.manifest.requires.v) = MajorOf(CORE_VERSION))
    /\ CompatibleWith(<<"1", ".", "3", ".", "2">>, Str(<<"1", ".", "0", ".", "0">>))
            = Return(TRUE)
    /\ CompatibleWith(<<"1", ".", "3", ".", "2">>, Str(<<"1", ".", "9", ".", "9">>))
            = Return(TRUE)
    /\ CompatibleWith(<<"1", ".", "3", ".", "2">>, Str(<<"2", ".", "0", ".", "0">>))
            = Return(FALSE)

\* A two-digit major that starts with the core's digit, rejected.
C4_Witness ==
    /\ Returned("validate")
    /\ AdmissibleBut(op.module, op.type)
    /\ op.module.manifest.requires = Str(<<"1", "0", ".", "0">>)
    /\ op.ret = Invalid("incompatible")

\* C5: a requirement whose leading component is not purely numeric is
\* incompatible: isCompatible returns false and validate returns invalid.
C5_FailsClosed ==
    /\ (/\ Returned("isCompatible")
        /\ op.requires.t = "string"
        /\ ~LeadingNumeric(op.requires.v)) =>
            op.ret = Return(FALSE)
    /\ (/\ Returned("validate")
        /\ HasManifest(op.module)
        /\ op.module.manifest.requires.t = "string"
        /\ ~LeadingNumeric(op.module.manifest.requires.v)) =>
            /\ ~op.ret.threw
            /\ op.ret.val.isValid = FALSE

\* C6: validate returns invalid when the module or its manifest is absent,
\* when slug or version is missing, and when the declared kind is not the
\* expected kind (a theme as plugin, a plugin as theme).
C6_StructureAndKind ==
    (/\ Returned("validate")
     /\ \/ ~HasManifest(op.module)
        \/ ~Truthy(op.module.manifest.slug)
        \/ ~Truthy(op.module.manifest.version)
        \/ op.module.manifest.type # op.type) =>
        /\ ~op.ret.threw
        /\ op.ret.val.isValid = FALSE

\* A theme, in order and compatible, validated where a plugin is expected.
C6_Witness ==
    /\ Returned("validate")
    /\ HasManifest(op.module)
    /\ op.module.manifest.slug = Str("shop")
    /\ op.module.manifest.version = Str("1.2.0")
    /\ op.module.manifest.type = Str("theme")
    /\ op.module.manifest.requires = Str(<<"1", ".", "0">>)
    /\ op.type = Str("plugin")
    /\ op.ret = Invalid("type")

RegistryUntouched ==
    /\ templates = EmptyMap
    /\ activeTheme = "nebula"
    /\ translations = InitialTranslations
    /\ systemLogs = <<>>

\* C7: validate never throws and has no side effect: for every input it
\* returns a record {isValid, error?}, and the Registry is as it was.
C7_NeverThrows ==
    /\ Returned("validate") =>
        /\ ~op.ret.threw
        /\ op.ret.val.isValid \in BOOLEAN
        /\ DOMAIN op.ret.val \subseteq {"isValid", "error"}
        /\ RegistryUntouched
    /\ Returned("isCompatible") =>
        /\ ~op.ret.threw
        /\ RegistryUntouched

\* A compatibility value that is not a string, rejected without a throw.
C7_Witness ==
    /\ Returned("validate")
    /\ AdmissibleBut(op.module, op.type)
    /\ op.module.manifest.requires = Num(1)
    /\ op.ret = Invalid("incompatible")


(***************************************************************************)
(* Registry: the claims.                                                   *)
(***************************************************************************)
\* C8: getView(v) returns the template registered under (activeTheme, v) if
\* there is one, otherwise the template registered under the bare name v if
\* there is one, otherwise null.
C8_ViewPrecedence ==
    \A v \in Views :
        getView(v) =
            IF ThemeKey(activeTheme, v) \in DOMAIN templates
                THEN Str(templates[ThemeKey(activeTheme, v)])
            ELSE IF v \in DOMAIN templates THEN Str(templates[v])
            ELSE Null

TouchesLanding(c) ==
    /\ c.name \in {"registerThemeView", "registerView"}
    /\ c.view = "landing"

\* Calls i and j are the only registrations of "landing": i under
\* (themeA, "landing"), j under the bare alias with a different markup; the
\* last call made switched the active theme to themeB.
LandingScenario(i, j) ==
    /\ i # j
    /\ calls[i].name = "registerThemeView"
    /\ calls[i].theme = "themeA"
    /\ calls[i].view = "landing"
    /\ calls[j].name = "registerView"
    /\ calls[j].view = "landing"
    /\ calls[i].html # calls[j].html
    /\ \A k \in 1..Len(calls) : TouchesLanding(calls[k]) => k \in {i, j}
    /\ calls[Len(calls)] = [name |-> "setActiveTheme", theme |-> "themeB"]

\* C9 as stated: whichever of the two registrations came first, after the
\* switch to themeB getView("landing") is the bare alias's markup and not
\* themeA's.
C9_AnyOrder ==
    \A i, j \in 1..Len(calls) :
        LandingScenario(i, j) =>
            /\ getView("landing") = Str(calls[j].html)
            /\ getView("landing") # Str(calls[i].html)

\* C9 amended: when the bare alias is registered after themeA's template,
\* after the switch to themeB getView("landing") is the bare alias's markup
\* (null when that markup is the empty string) and not themeA's.
C9_BareAfterTheme ==
    \A i, j \in 1..Len(calls) :
        (LandingScenario(i, j) /\ i < j) =>
            /\ getView("landing") =
                IF calls[j].html = "" THEN Null ELSE Str(calls[j].html)
            /\ getView("landing") # Str(calls[i].html)

\* themeA's "A", then the bare "B", then the switch: "B" is resolved.
C9_Witness ==
    /\ Len(calls) = 3
    /\ LandingScenario(1, 2)
    /\ calls[1].html = "A"
    /\ calls[2].html = "B"
    /\ activeTheme = "themeB"
    /\ getView("landing") = Str("B")

Mentions(c, locale, key) ==
    /\ c.name = "registerTranslation"
    /\ c.locale = locale
    /\ key \in DOMAIN c.data

RECURSIVE TranslationsAfter(_)
\* The translation table after the first n calls.
TranslationsAfter(n) ==
    IF n = 0 THEN InitialTranslations
    ELSE LET c == calls[n]
             before == TranslationsAfter(n - 1)
         IN IF c.name = "registerTranslation"
                THEN registerTranslation(before, c.locale, c.data)
            ELSE before

\* C10: after registerTranslation(L, {K: V1}) and then
\* registerTranslation(L, {K: V2}), getTranslation(L, K) is V2; and a
\* registration changes the lookup of no (locale, key) it does not mention.
C10_LastWriteWins ==
    /\ \A locale \in Locales, key \in Keys :
        \A i, j \in 1..Len(calls) :
            (/\ i < j
             /\ Mentions(calls[i], locale, key)
             /\ Mentions(calls[j], locale, key)
             /\ \A k \in (j + 1)..Len(calls) : ~Mentions(calls[k], locale, key)) =>
                getTranslation(locale, key) = Str(calls[j].data[key])
    /\ \A locale \in Locales \cup {"id"}, key \in Keys :
        (Len(calls) > 0 /\ ~Mentions(calls[Len(calls)], locale, key)) =>
            getTranslation(locale, key) =
                getTranslationIn(TranslationsAfter(Len(calls) - 1), locale, key)


(***************************************************************************)
(* Migrator: exceptions, the order of execution and record, the ledger     *)
(* table.                                                                  *)
(***************************************************************************)
ErrorOutcomes == {"ERROR_SQL", "ERROR_FATAL"}

\* C17: applyMigration never throws, and an exception raised by the ledger
\* lookup, the SQL execution or the ledger insert is returned as an ERROR
\* outcome: every returned call one of whose database calls failed returned
\* ERROR.
C17_ExceptionsBecomeErrors ==
    \A j \in 1..Len(outs) :
        outs[j].faults # {} => outs[j].out \in ErrorOutcomes

\* The returned calls that recorded the ledger row i.
RecordedBy(i) ==
    {j \in 1..Len(outs) :
        /\ outs[j].out = "SUCCESS"
        /\ <<outs[j].slug, outs[j].version>> = ledger[i]}

C19_LedgerEnsured ==
    \A j \in 1..Len(outs) :
        (~outs[j].table0 /\ outs[j].down = {})
            => (outs[j].out = "SUCCESS" /\ outs[j].inLedger)


(***************************************************************************)
(* The migration sweep: the claims.                                        *)
(***************************************************************************)
OutcomeLines(logs) == SelectSeq(logs, LAMBDA line : line.kind = "OUTCOME")

\* The outcome lines of the finished sweep are one per schema record, in the
\* order of the records, each the outcome of an applyMigration call made by
\* this sweep for that record.
OneLinePerRecord ==
    LET lines == OutcomeLines(sweep.logs)
    IN /\ Len(lines) = sweep.records
       /\ Len(outs) = sweep.first + sweep.records - 1
       /\ \A k \in 1..Len(lines) :
            /\ lines[k].record = k
            /\ lines[k].slug = schemas[k].slug
            /\ lines[k].version = schemas[k].version
            /\ lines[k].out = outs[sweep.first + k - 1].out
            /\ outs[sweep.first + k - 1].slug = schemas[k].slug
            /\ outs[sweep.first + k - 1].version = schemas[k].version

\* C16 as stated: every finished sweep has produced exactly one outcome line
\* per registered schema record.
C16_OneLinePerRecordAlways ==
    sweep.pc = "done" => OneLinePerRecord

\* C16, amended: a sweep whose initSystem succeeded produces exactly one
\* outcome line per registered schema record, whatever the outcomes of the
\* earlier records: applyMigration is attempted for every record.
C16_OneLinePerRecord ==
    (sweep.pc = "done" /\ sweep.ready) => OneLinePerRecord

\* A sweep over two records finished; the first returned ERROR and the
\* second was applied all the same.
C16_Witness ==
    /\ sweep.pc = "done" /\ sweep.ready
    /\ sweep.records = 2
    /\ OutcomeLines(sweep.logs)[1].out \in ErrorOutcomes
    /\ OutcomeLines(sweep.logs)[2].out = "SUCCESS"


(***************************************************************************)
(* The module loader: the claims.                                          *)
(***************************************************************************)
\* Whether Validator.validate accepts the module for its own declared kind.
AcceptedByValidator(mod) ==
    validate(mod, IF HasManifest(mod) THEN mod.manifest.type ELSE Undefined)
        = Valid

InList(list, x) == \E i \in 1..Len(list) : list[i] = x

\* The mount functions that have run are those of the accepted modules among
\* the ones walked so far, once each and in list order.
MountedIffAccepted ==
    mounts = SelectSeq([i \in 1..(cursor - 1) |-> i],
                       LAMBDA i : AcceptedByValidator(modules[i]))

\* What one step of the walk does, on an accepted and on a rejected module.
LoadStep ==
    (cursor >= 1 /\ cursor' = cursor + 1) =>
        LET mod == modules[cursor]
        IN IF AcceptedByValidator(mod)
               THEN LET slug == mod.manifest.slug.v
                        version == mod.manifest.version.v
                    IN /\ mounts' = Append(mounts, cursor)
                       /\ systemLogs'[Len(systemLogs')]
                            = "Module mounted: " \o slug \o " v" \o version
                       /\ IF mod.manifest.type = Str("plugin")
                              THEN InList(pluginList', slug)
                          ELSE InList(pluginList', slug)
                                   <=> InList(pluginList, slug)
           ELSE /\ mounts' = mounts
                /\ pluginList' = pluginList
                /\ systemLogs' = systemLogs

\* C20: the loader walks the module list once in list order and mounts a
\* module iff Validator.validate accepts it; an accepted module is mounted
\* exactly once, listed as loaded iff its kind is plugin, and its mount
\* confirmation is the last line logged; a rejected module is not mounted,
\* not listed and logs nothing.
C20_MountIffValid == []MountedIffAccepted /\ [][LoadStep]_vars

\* The walk is over: the default theme, which declares no requires, was
\* skipped, and the plugin after it was mounted and listed.
C20_Witness ==
    /\ ModulesLoaded
    /\ modules = <<DefaultTheme, PagesManager>>
    /\ mounts = <<2>>
    /\ pluginList = <<"pages-manager">>


(***************************************************************************)
(* The root route: the claims.                                             *)
(***************************************************************************)
\* The plugins the loader mounted: the walked modules whose mount function
\* ran and whose kind is plugin.
MountedPlugins ==
    {i \in 1..Len(modules) :
        InList(mounts, i) /\ modules[i].manifest.type = Str("plugin")}

\* A finished root request both of whose settings reads failed.
SettingsAbsent ==
    /\ home.pc = "done"
    /\ home.homeTypeSetting = Null
    /\ home.homeTargetSetting = Null

\* The response is the landing view, rendered.
LandingRendered ==
    /\ home.response.kind = "html"
    /\ home.response.status = 200
    /\ home.response.view = "landing"

\* C11 as stated: when every settings read fails, the root request renders
\* the default landing view with plugin_count equal to the number of plugins
\* the loader mounted.
C11_LandingOnAbsentSettings ==
    SettingsAbsent =>
        /\ LandingRendered
        /\ home.response.data.plugin_count
             = ToString(Cardinality(MountedPlugins))

\* A finished root request that read homepage-type "page", a target id, and
\* found the page record of that id.
PageFound ==
    /\ home.pc = "done"
    /\ ValueOf(home.homeTypeSetting) = Str("page")
    /\ Truthy(ValueOf(home.homeTargetSetting))
    /\ Truthy(home.page)

\* The response is a rendered page: no redirect and no landing view.
PageRendered ==
    /\ home.response.kind = "html"
    /\ home.response.status = 200
    /\ home.response.view = "page"

BlogConfigured ==
    /\ home.pc = "done"
    /\ ValueOf(home.homeTypeSetting) = Str("blog")

\* C13: a root request that reads homepage-type "blog" ends with a redirect
\* to "/blog", whatever the target-id read gave, and has issued no read of
\* the static_pages table: its only reads are the two of core_settings.
C13_BlogRedirects ==
    BlogConfigured =>
        /\ home.response = Redirect("/blog")
        /\ home.state = "B"
        /\ ~InList(home.reads, "static_pages")
        /\ home.reads = <<"core_settings", "core_settings">>

\* Homepage-type "blog" with a target id whose page exists: the request was
\* redirected all the same.
C13_Witness ==
    /\ BlogConfigured
    /\ ValueOf(home.homeTargetSetting) = Str("5")
    /\ findOnePage("5", TRUE) # Null
    /\ home.response = Redirect("/blog")

\* The three terminal outcomes of a root request.
EndsInB == home.state = "B" /\ home.response = Redirect("/blog")
EndsInC == home.state = "C" /\ PageRendered
EndsInD ==
    /\ home.state = "D"
    /\ home.response.kind = "html"
    /\ home.response.view \in {"landing", "error"}

ExactlyOneOutcome ==
    /\ EndsInB \/ EndsInC \/ EndsInD
    /\ ~(EndsInB /\ EndsInC) /\ ~(EndsInB /\ EndsInD) /\ ~(EndsInC /\ EndsInD)

\* The homepage type the route works with: homeTypeSetting?.value || 'default'.
HomeTypeRead == OrElse(ValueOf(home.homeTypeSetting), Str("default"))

\* The failures that concern the branch taken: the homepage-type read
\* failed, the type is neither blog nor page, the type is page and the
\* target read failed or gave an empty id, or the page lookup gave nothing.
BranchFailed ==
    \/ home.homeTypeSetting = Null
    \/ HomeTypeRead \notin {Str("blog"), Str("page")}
    \/ HomeTypeRead = Str("page") /\ ~Truthy(ValueOf(home.homeTargetSetting))
    \/ /\ HomeTypeRead = Str("page")
       /\ InList(home.reads, "static_pages")
       /\ home.page = Null

DefaultFromRegistry ==
    (home.pc = "done" /\ home.state = "D") =>
        /\ Len(home.reads) = home.readsAtD
        /\ ~InList(home.reads, "static_pages") => Len(home.reads) = 2
        /\ home.response = render("landing", LandingData(systemLogs))
        /\ home.response.status = 200 <=> Truthy(getView("landing"))

\* The State D step itself: it reads and writes no table, and logs one line.
DefaultStep ==
    (home.pc = "D" /\ home'.pc = "done") =>
        /\ home'.reads = home.reads
        /\ UNCHANGED <<storeVars, databaseVars>>
        /\ systemLogs' = Append(systemLogs,
                "System Status: Rendering Default Landing Page.")

\* C15: once the root route has entered State D it issues no database read
\* or write, and its response is produced from the Registry and the
\* configuration alone, on an unmigrated database as on any other.
C15_DefaultWithoutDatabase == []DefaultFromRegistry /\ [][DefaultStep]_vars

\* No table exists, neither core_settings nor static_pages nor the ledger,
\* and the request was answered with the landing view of a mounted theme.
C15_Witness ==
    /\ home.pc = "done" /\ home.state = "D"
    /\ ~settings.exists /\ ~pages.exists /\ ~ledgerTable
    /\ home.response.status = 200
    /\ home.response.view = "landing"
    /\ home.response.data.plugin_count = "1"


(***************************************************************************)
(* The Registry tables: the claims.                                        *)
(***************************************************************************)
\* The positions of the setActiveTheme calls made so far.
ThemeCalls == {i \in 1..Len(calls) : calls[i].name = "setActiveTheme"}

\* The pointer is the built-in default before the first setActiveTheme call
\* and the argument of the latest one after it.
ThemeIsLastCall ==
    /\ activeTheme \in Themes
    /\ getActiveThemeName = activeTheme
    /\ IF ThemeCalls = {} THEN activeTheme = "nebula"
       ELSE LET last == CHOOSE i \in ThemeCalls : \A j \in ThemeCalls : j <= i
            IN activeTheme = calls[last].theme

\* A step that is not a setActiveTheme call leaves the pointer alone.
ThemeStep ==
    (calls' # calls /\ calls'[Len(calls')].name # "setActiveTheme") =>
        activeTheme' = activeTheme

\* C21: the active-theme pointer is the built-in default until the first
\* setActiveTheme call and the argument of the most recent call afterwards;
\* no other Registry write changes it.
C21_LastCallerWins == []ThemeIsLastCall /\ [][ThemeStep]_vars

\* Two themes became active one after the other, then a view was
\* registered for the first: the pointer is the second theme.
C21_Witness ==
    /\ Len(calls) = 3
    /\ calls[1] = [name |-> "setActiveTheme", theme |-> "themeA"]
    /\ calls[2] = [name |-> "setActiveTheme", theme |-> "themeB"]
    /\ calls[3].name = "registerThemeView" /\ calls[3].theme = "themeA"
    /\ activeTheme = "themeB"

RECURSIVE Distinct(_)
\* The list without the later repetitions of its elements.
Distinct(list) ==
    IF list = <<>> THEN <<>>
    ELSE LET front == Distinct(SubSeq(list, 1, Len(list) - 1))
             x == list[Len(list)]
         IN IF InList(front, x) THEN front ELSE Append(front, x)

\* The names registerPlugin was called with, in call order.
PluginCalls ==
    LET at == SelectSeq([i \in 1..Len(calls) |-> i],
                        LAMBDA i : calls[i].name = "registerPlugin")
    IN [k \in 1..Len(at) |-> calls[at[k]].plugin]

\* The list holds each registered name once, in order of first registration,
\* and getPluginCount is the number of distinct names.
PluginListDistinct ==
    /\ pluginList = Distinct(PluginCalls)
    /\ \A i, j \in 1..Len(pluginList) : pluginList[i] = pluginList[j] => i = j
    /\ getPluginCount = Cardinality({PluginCalls[k] : k \in 1..Len(PluginCalls)})

\* A registerPlugin call adds its name at the end with one log line when the
\* name is new, and changes neither the list nor the log when it is not.
PluginStep ==
    (calls' # calls /\ calls'[Len(calls')].name = "registerPlugin") =>
        LET name == calls'[Len(calls')].plugin
        IN IF InList(pluginList, name)
               THEN pluginList' = pluginList /\ systemLogs' = systemLogs
           ELSE /\ pluginList' = Append(pluginList, name)
                /\ systemLogs' = Append(systemLogs, "Plugin mounted: " \o name)

\* C22: the loaded-module set never holds a duplicate: it is the distinct
\* registered names in order of first registration, getPluginCount is their
\* number, and registering a name again adds no entry and no log line.
C22_NoDuplicatePlugin == []PluginListDistinct /\ [][PluginStep]_vars

\* The site manager was registered, then the pages manager, then the site
\* manager again: two entries and two log lines.
C22_Witness ==
    /\ PluginCalls = <<"site-manager", "pages-manager", "site-manager">>
    /\ pluginList = <<"site-manager", "pages-manager">>
    /\ Len(systemLogs) = 2

\* Whether record k is the first of its (slug, version) in the schema list.
FirstOfPair(k) ==
    \A j \in 1..(k - 1) :
        <<schemas[j].slug, schemas[j].version>>
            # <<schemas[k].slug, schemas[k].version>>

\* The applyMigration call of the finished sweep for record k.
SweepCall(k) == outs[sweep.first + k - 1]

\* How often the finished sweep has sent SQL of record k's pair to the store
\* by the time the call for record k returned.
SentInSweep(k) ==
    Cardinality({j \in 1..k :
        /\ schemas[j].slug = schemas[k].slug
        /\ schemas[j].version = schemas[k].version
        /\ SweepCall(j).rawCalled
        /\ ~SweepCall(j).blank})

\* A finished sweep that went through a list with a repeated (slug,
\* version), none of whose pairs was in the ledger before.
SweepOverDuplicates ==
    /\ sweep.pc = "done" /\ sweep.ready
    /\ sweep.records = Len(schemas)
    /\ \E k \in 1..Len(schemas) : ~FirstOfPair(k)
    /\ \A k \in 1..Len(schemas) : FirstOfPair(k) => ~SweepCall(k).hadRow

DuplicatesSkipped ==
    (SweepOverDuplicates /\ \A k \in 1..Len(schemas) : SweepCall(k).down = {}) =>
        \A k \in 1..Len(schemas) :
            LET first == CHOOSE j \in 1..k :
                            /\ FirstOfPair(j)
                            /\ schemas[j].slug = schemas[k].slug
                            /\ schemas[j].version = schemas[k].version
            IN /\ SweepCall(k).out = IF FirstOfPair(k) THEN "SUCCESS" ELSE "SKIP"
               /\ SentInSweep(k) = IF IsBlank(schemas[first].sql) THEN 0 ELSE 1
               /\ ~FirstOfPair(k) => ~SweepCall(k).rawCalled

\* The Registry part of C23: every registerSchema call pushes one record at
\* the end of the list, whether or not the list holds its pair already.
SchemaStep ==
    (systemLogs' # systemLogs) =>
        \E pair \in Pairs, sql \in SchemaTexts :
            /\ systemLogs' = Append(systemLogs, "Schema registered: " \o pair[1]
                                                  \o " v" \o pair[2])
            /\ schemas' = Append(schemas, [slug |-> pair[1],
                                           version |-> pair[2], sql |-> sql])
            /\ getSchemas' = schemas'

IsPrefix(a, b) == Len(a) <= Len(b) /\ SubSeq(b, 1, Len(a)) = a

RECURSIVE LinesOf(_)
\* The lines the Registry calls cs have logged, in call order: one for a
\* log call, for a setActiveTheme call and for a registerPlugin call with a
\* name not registered before, none for any other call.
LinesOf(cs) ==
    IF cs = <<>> THEN <<>>
    ELSE LET before == SubSeq(cs, 1, Len(cs) - 1)
             c == cs[Len(cs)]
         IN CASE c.name = "log" -> Append(LinesOf(before), c.message)
              [] c.name = "setActiveTheme" ->
                    Append(LinesOf(before), "Theme switched to: " \o c.theme)
              [] c.name = "registerPlugin" ->
                    IF \E i \in 1..Len(before) :
                            /\ before[i].name = "registerPlugin"
                            /\ before[i].plugin = c.plugin
                        THEN LinesOf(before)
                    ELSE Append(LinesOf(before), "Plugin mounted: " \o c.plugin)
              [] OTHER -> LinesOf(before)

\* No step removes, reorders or rewrites a line: the log before it is a
\* prefix of the log after it, and a Registry.log call adds exactly its
\* line at the end.
LogStep ==
    /\ IsPrefix(systemLogs, systemLogs')
    /\ (calls' # calls /\ calls'[Len(calls')].name = "log") =>
            systemLogs' = Append(systemLogs, calls'[Len(calls')].message)

\* C24: the diagnostic log is append-only: it holds, in call order, every
\* line logged so far, each log call adds one line at the end, and the log
\* before any operation is a prefix of the log after it.
C24_LogAppendOnly == [](systemLogs = LinesOf(calls)) /\ [][LogStep]_vars

\* Three calls have logged: the three lines are there in call order.
C24_Witness ==
    /\ Len(calls) = 3
    /\ calls[1].name = "log" /\ calls[2].name = "setActiveTheme"
    /\ calls[3].name = "log" /\ calls[3].message # calls[1].message
    /\ systemLogs = <<calls[1].message, "Theme switched to: " \o calls[2].theme,
                      calls[3].message>>

\* Names a caller may read: registered ones, and names nobody registers.
ViewNames == Views \cup ObjectPrototypeKeys
LocaleNames == Locales \cup {"id"} \cup ObjectPrototypeKeys
KeyNames == Keys \cup ObjectPrototypeKeys

\* C25: every Registry read of a key that was never registered returns the
\* not-found value: null for a view, a theme view and a translation key, an
\* empty table for a locale, undefined for a schema slug and an empty list
\* for a menu category.
C25_MissingReadsNotFound ==
    /\ \A v \in ViewNames :
        (v \notin DOMAIN templates
            /\ ThemeKey(activeTheme, v) \notin DOMAIN templates) =>
                getView(v) = Null
    /\ \A th \in Themes, v \in ViewNames :
        ThemeKey(th, v) \notin DOMAIN templates => getThemeView(th, v) = Null
    /\ \A locale \in LocaleNames, key \in KeyNames :
        (locale \notin DOMAIN translations
            \/ key \notin DOMAIN translations[locale]) =>
                getTranslation(locale, key) = Null
    /\ \A locale \in LocaleNames :
        locale \notin DOMAIN translations =>
            getTranslations(locale) = [t |-> "object", own |-> EmptyMap]
    /\ \A slug \in {"core-system", "shop", "blog"} :
        (\A i \in 1..Len(schemas) : schemas[i].slug # slug) =>
            getSchema(slug) = Undefined
    /\ \A category \in {"plugin", "theme", "settings"} :
        (\A i \in 1..Len(menus) : menus[i].category # category) =>
            getMenus(Str(category)) = <<>>


(***************************************************************************)
(* The view engine: the claims.                                            *)
(***************************************************************************)
\* The step in which a render call returns.
RenderReturns ==
    /\ op.name = "render"
    /\ IsPending(op.ret)
    /\ op'.name = "render"
    /\ ~IsPending(op'.ret)

\* The view of the call is registered neither under the active theme nor
\* under its bare name.
Unregistered(viewName) ==
    /\ ThemeKey(activeTheme, viewName) \notin DOMAIN templates
    /\ viewName \notin DOMAIN templates

\* The error output for a view: status 500, naming the view and the theme.
LabelledError(viewName) ==
    [kind |-> "html", status |-> 500, view |-> "error",
     body |-> <<"Error: View '", viewName, "' not found in '", activeTheme,
                "'">>]

ErrorStep ==
    (RenderReturns /\ Unregistered(op.view)) =>
        /\ op'.ret.kind = "html"
        /\ op'.ret.status = 500
        /\ op'.ret.body = LabelledError(op.view).body

\* C26: render of a view registered neither under the active theme nor as a
\* bare alias returns the error output with status 500 that names the view
\* and the active theme.
C26_UnresolvedIsLabelledError == [][ErrorStep]_vars

\* The data the engine substitutes: the payload with the engine's two
\* fields, the engine's values taking precedence.
FinalData(data) == [theme_name |-> activeTheme, year |-> "year"] @@ data

\* The step in which a render call returns a rendered template.
RenderSucceeds ==
    /\ RenderReturns
    /\ op'.ret.kind = "html"
    /\ op'.ret.status = 200

\* Every placeholder whose key is in the data is replaced by the key's
\* value, and every other token is left as it is.
PlainlySubstituted(tokens, data) ==
    [i \in 1..Len(tokens) |->
        IF \E k \in DOMAIN data : tokens[i] = Placeholder(k)
            THEN data[CHOOSE k \in DOMAIN data : tokens[i] = Placeholder(k)]
        ELSE tokens[i]]

SubstitutionStep ==
    RenderSucceeds =>
        op'.ret.body = PlainlySubstituted(Tokens(getView(op.view).v),
                                          FinalData(op.data))

\* C27: substitution replaces every occurrence of {{key}}, for each key of
\* the data, by that key's string value, leaves a placeholder whose key is
\* not in the data verbatim, and is unaffected by keys without placeholder.
C27_LiteralSubstitution == [][SubstitutionStep]_vars

EngineFieldsStep ==
    RenderSucceeds =>
        LET tokens == Tokens(getView(op.view).v)
            body == op'.ret.body
        IN /\ Len(body) = Len(tokens)
           /\ \A i \in 1..Len(tokens) :
                /\ tokens[i] = "{{theme_name}}" => body[i] = getActiveThemeName
                /\ tokens[i] = "{{year}}" => body[i] = "year"

\* C28: whatever the payload, render substitutes theme_name, the active
\* theme, and year; a payload that has a key theme_name or year of its own
\* does not change what is substituted for them.
C28_EngineFieldsWin == [][EngineFieldsStep]_vars

\* A payload with theme_name "mine" and year "1999" was rendered after the
\* theme was switched to themeB: the page shows themeB and the engine's year.
C28_Witness ==
    /\ Returned("render")
    /\ op.data = [theme_name |-> "mine", a |-> "V", year |-> "1999"]
    /\ op.ret.status = 200
    /\ op.ret.body = <<"<t>", "V", "{{b}}", "V", "themeB", "year">>


(***************************************************************************)
(* The root route and the Registry.                                        *)
(***************************************************************************)
\* A step of a root request: it arrives, or its handler goes on.
RequestStep == home' # home

\* A step of a root request leaves the menu, schema, template, translation,
\* active-theme and loaded-module tables as they are; it may add lines at
\* the end of the log, and only the State D step does.
RequestReadsRegistry ==
    RequestStep =>
        /\ UNCHANGED <<menus, schemas, templates, translations, activeTheme,
                       pluginList>>
        /\ IsPrefix(systemLogs, systemLogs')
        /\ systemLogs' # systemLogs =>
                /\ home.pc = "D"
                /\ systemLogs' = Append(systemLogs,
                        "System Status: Rendering Default Landing Page.")

KeyRefused ==
    \/ op.inputKey \in {Undefined, Str("")}
    \/ op.inputKey.t # "string"
    \/ op.inputKey # op.masterKey

\* A refused request was answered 401 without a statement; an accepted one
\* sent the core schema first.
SetupGated ==
    Returned("setup") =>
        IF KeyRefused
            THEN op.ret.status = 401 /\ op.ret.statements = <<>>
        ELSE /\ op.ret.status = 200
             /\ op.ret.statements[1] = "core schema"

\* The settings table changes only in a setup step whose key was accepted.
SetupStep ==
    settings' # settings =>
        /\ op.name = "setup" /\ IsPending(op.ret)
        /\ ~KeyRefused
        /\ settings' = coreSchemaApplied(settings)

\* C30: a setup request whose key is absent, empty or not the configured
\* master key, also when none is configured, is answered 401 and executes
\* no statement; the core schema is applied only for the configured key.
C30_SetupGated == []SetupGated /\ [][SetupStep]_vars

\* No master key is configured and the request supplies none: the two are
\* equal, and the request was refused with the table still missing.
C30_Witness ==
    /\ Returned("setup")
    /\ op.inputKey = Undefined /\ op.masterKey = Undefined
    /\ op.ret.status = 401
    /\ ~settings.exists


(***************************************************************************)
(* Database.raw: the claims.                                               *)
(***************************************************************************)
\* The record raw returned carries a success flag, a count and a duration.
SameShape(result) == {"success", "count", "duration"} \subseteq DOMAIN result

\* C31: for every schema text Database.raw returns a record carrying a
\* success flag, a statement count equal to the number of non-empty trimmed
\* fragments between the ';', and a duration.
C31_RawSameShape ==
    Returned("raw") =>
        /\ SameShape(op.ret)
        /\ op.ret.count = Len(splitStatements(op.sql))


(***************************************************************************)
(* I18n: the claims.                                                       *)
(***************************************************************************)
\* A text is registered for (locale, key).
Registered(locale, key) ==
    locale \in DOMAIN translations /\ key \in DOMAIN translations[locale]

\* What t is to return: the text of the locale, else that of the default
\* locale, else the key.
Translation(locale, key) ==
    IF Registered(locale, key) THEN Str(translations[locale][key])
    ELSE IF Registered(defaultLocale, key)
        THEN Str(translations[defaultLocale][key])
    ELSE Str(key)

\* The step in which t returns a text.
TranslateStep ==
    (op.name = "t" /\ IsPending(op.ret) /\ ~IsPending(op'.ret)) =>
        op'.ret = Translation(op.locale, op.key)

\* getTranslation answers from the locale asked for alone, null when no text
\* is registered there.
RegistryHasNoFallback ==
    \A locale \in LocaleNames, key \in KeyNames :
        getTranslation(locale, key) =
            IF Registered(locale, key) THEN Str(translations[locale][key])
            ELSE Null

\* C32: I18n.t(key) returns the text registered for (locale, key), else the
\* text registered for (default locale, key), else the key itself, and
\* Registry.getTranslation returns null for a missing (locale, key) without
\* any fallback of its own.
C32_FallbackOwnedByCaller == []RegistryHasNoFallback /\ [][TranslateStep]_vars

\* The fallback of t alone, for keys no object inherits and texts that are
\* not empty.
FallbackInT ==
    [][(op.name = "t" /\ op.key \notin ObjectPrototypeKeys
            /\ \A l \in DOMAIN translations :
                    \A k \in DOMAIN translations[l] : translations[l][k] # "")
        => TranslateStep]_vars


(***************************************************************************)
(* The ledger under concurrent sweeps: the claims.                         *)
(***************************************************************************)
\* No pair has two rows.
OneRowPerPair == Distinct(ledger) = ledger

\* Rows are added at the end and never removed or changed.
LedgerStep == IsPrefix(ledger, ledger')

\* C33: the ledger holds at most one row per (slug, version) pair in every
\* reachable state, whatever the interleaving of concurrent sweeps and
\* whatever calls failed or were repeated, and no row is ever deleted.
C33_OneRowPerPair == []OneRowPerPair /\ [][LedgerStep]_vars

\* Two requests went through the lookup for the same pair before either
\* recorded it; the INSERT of the second was refused by the table, the store
\* itself answering.
C33_Witness ==
    /\ Len(outs) = 2
    /\ outs[1].caller # outs[2].caller
    /\ outs[1].slug = outs[2].slug /\ outs[1].version = outs[2].version
    /\ outs[1].out = "SUCCESS"
    /\ outs[2].out = "ERROR_FATAL" /\ outs[2].down = {} /\ ~outs[2].hadRow
    /\ Len(ledger) = 1

\* The store answered every database call made so far by applyMigration.
StoreAnswered ==
    /\ \A i \in 1..Len(outs) : outs[i].down = {}
    /\ \A p \in Sweepers : mig[p].pc \in {"idle", "ready"} \/ mig[p].down = {}

\* No (slug, version) pair is registered twice.
RegisteredOnce ==
    \A i, j \in 1..Len(schemas) :
        (schemas[i].slug = schemas[j].slug
            /\ schemas[i].version = schemas[j].version) => i = j

\* C34: under any interleaving of two migration sweeps running at once over
\* the same registered schemas, the SQL of each (slug, version) schema is
\* executed at most once; stated for the runs in which the store answers
\* every call and no pair is registered twice.
C34_ExecutedOnceConcurrently ==
    (StoreAnswered /\ RegisteredOnce) => \A pair \in Pairs : applied[pair] <= 1


(***************************************************************************)
(* Setup and sweeps together: the claims.                                  *)
(***************************************************************************)
\* C35: across any sequence of authorised setup requests and migration
\* sweeps the SQL of each registered (slug, version) schema, the core-system
\* schema included, is executed successfully at most once.
C35_ExecutedAtMostOnce == \A pair \in Pairs : applied[pair] <= 1

\* The same for sweeps alone when the store answers every call.
SweepsExecuteOnce ==
    (StoreAnswered /\ RegisteredOnce /\ op.name = "none") =>
        \A pair \in Pairs : applied[pair] <= 1


(***************************************************************************)
(* The template table: the claims.                                         *)
(***************************************************************************)
\* The calls that registered "landing", under a theme or bare.
LandingCalls == {k \in 1..Len(calls) : TouchesLanding(calls[k])}

\* The bare "landing" entry is the markup of the latest of them, and absent
\* when there is none.
LandingIsLatest ==
    IF LandingCalls = {} THEN "landing" \notin DOMAIN templates
    ELSE LET last == CHOOSE k \in LandingCalls : \A j \in LandingCalls : j <= k
         IN /\ "landing" \in DOMAIN templates
            /\ templates["landing"] = calls[last].html

\* A registerThemeView call for another view leaves the bare entries alone.
OtherViewStep ==
    (/\ Len(calls') = Len(calls) + 1
     /\ calls'[Len(calls')].name = "registerThemeView"
     /\ calls'[Len(calls')].view # "landing") =>
        \A v \in Views :
            /\ (v \in DOMAIN templates') = (v \in DOMAIN templates)
            /\ v \in DOMAIN templates => templates'[v] = templates[v]

\* C36: registerThemeView(theme, "landing", html) also writes html to the
\* bare "landing" alias, for every theme, active or not: the bare "landing"
\* entry is always the markup of the latest call among
\* registerThemeView(_, "landing", _) and registerView("landing", _); for
\* any other view registerThemeView changes no bare alias.
C36_LandingAliasFollows == []LandingIsLatest /\ [][OtherViewStep]_vars

\* The bare alias held "B"; a theme that is not the active one registered
\* its "landing" as "A", and the alias is "A".
C36_Witness ==
    /\ Len(calls) = 2
    /\ calls[1] = [name |-> "registerView", view |-> "landing", html |-> "B"]
    /\ calls[2].name = "registerThemeView"
    /\ calls[2].theme = "themeA" /\ calls[2].view = "landing"
    /\ calls[2].html = "A"
    /\ activeTheme # "themeA"
    /\ templates["landing"] = "A"

\* The registration made by this step.
Registration == calls'[Len(calls')]

\* A bare registration changes what no (theme, view) pair resolves to.
BareStep ==
    (Len(calls') = Len(calls) + 1 /\ Registration.name = "registerView") =>
        \A th \in KeySlugs, v \in KeyViews :
            getThemeView(th, v)' = getThemeView(th, v)

\* A registration for a (theme, view) pair changes what no other pair
\* resolves to.
PairStep ==
    (Len(calls') = Len(calls) + 1 /\ Registration.name = "registerThemeView") =>
        \A th \in KeySlugs, v \in KeyViews :
            <<th, v>> # <<Registration.theme, Registration.view>> =>
                getThemeView(th, v)' = getThemeView(th, v)

\* C37: template keys do not alias, for all slugs and names, those that
\* contain ':' included: registerView(name, html) never changes the result
\* of getThemeView(t, v), and registrations for distinct (theme, view) pairs
\* never overwrite each other.
C37_KeysDoNotAlias == [][BareStep /\ PairStep]_vars

\* The same without ':' in any slug or name.
PlainKeysDoNotAlias ==
    [][(\A k \in 1..Len(calls') :
            /\ calls'[k].view \in {"c"}
            /\ calls'[k].name = "registerThemeView" => calls'[k].theme = "a")
        => BareStep /\ PairStep]_vars


(***************************************************************************)
(* The loader and the kind tag: the claims.                                *)
(***************************************************************************)
\* C38: the loader mounts only modules whose manifest kind is 'plugin' or
\* 'theme'; a module declaring any other kind is never mounted, even with a
\* well-formed slug, version and compatibility field.
C38_OnlyKnownKindsMounted ==
    \A k \in 1..Len(mounts) :
        modules[mounts[k]].manifest.type \in ExpectedKinds

\* Whatever its kind, a module is mounted only when structure and
\* compatibility are in order.
MountedAreWellFormed ==
    \A k \in 1..Len(mounts) :
        LET m == modules[mounts[k]].manifest
        IN /\ Truthy(m.slug) /\ Truthy(m.version) /\ Truthy(m.requires)
           /\ isCompatible(m.requires) = Return(TRUE)


(***************************************************************************)
(* The sweep's start and its order: the claims.                            *)
(***************************************************************************)
\* The sweep whose initSystem threw: it is over, its log is the FATAL line
\* alone, and it made no applyMigration call.
FatalSweepDidNothing ==
    (sweep.pc # "none" /\ \E k \in 1..Len(sweep.logs) : sweep.logs[k] = FatalLine)
        => /\ sweep.pc = "done"
           /\ sweep.logs = <<FatalLine>>
           /\ Len(outs) = sweep.first - 1
           /\ \A p \in Callers : mig[p].pc = "idle"

\* The step in which initSystem throws leaves the database as it was.
FatalStep ==
    (sweep.pc = "init" /\ sweep'.logs = <<FatalLine>>) =>
        UNCHANGED <<ledgerTable, ledger, sent, applied, settings, pages>>

\* C39: when creating the ledger table fails at the start of a sweep, the
\* sweep executes no schema SQL and inserts no ledger row; it returns the
\* single FATAL line and leaves the database unchanged.
C39_FatalInitStopsSweep == []FatalSweepDidNothing /\ [][FatalStep]_vars

\* A sweep over a registered schema with statements ended with the FATAL
\* line; nothing was sent and the ledger table is still missing.
C39_Witness ==
    /\ sweep.pc = "done"
    /\ sweep.logs = <<FatalLine>>
    /\ Len(schemas) > 0
    /\ ~IsBlank(schemas[1].sql)
    /\ \A pair \in Pairs : sent[pair] = 0
    /\ ~ledgerTable /\ ledger = <<>>

\* The sweep is in its loop.
InLoop == sweep.pc \in {"loop", "await"}

\* While the sweep is in its loop: the outcome lines so far are those of the
\* first records of the list, in registration order, and the only call that
\* can be in flight, or returned and not yet logged, is the one for the
\* record after them.
AppliedInOrder ==
    InLoop =>
        LET lines == OutcomeLines(sweep.logs)
        IN /\ Len(lines) = sweep.i - 1
           /\ Len(outs) = sweep.first + Len(lines) - 1
                            + (IF sweep.pc = "await"
                                    /\ \A p \in Callers : mig[p].pc = "idle"
                                 THEN 1 ELSE 0)
           /\ \A k \in 1..Len(lines) :
                /\ lines[k].record = k
                /\ lines[k].slug = schemas[k].slug
                /\ lines[k].version = schemas[k].version
                /\ lines[k].out = outs[sweep.first + k - 1].out
           /\ \A p \in Callers :
                mig[p].pc # "idle" =>
                    /\ sweep.pc = "await"
                    /\ mig[p].slug = schemas[sweep.i].slug
                    /\ mig[p].version = schemas[sweep.i].version

\* A call is entered only when no call is in flight and every call made so
\* far has returned and has its line.
EnterStep ==
    (\E p \in Callers : mig[p].pc = "idle" /\ mig'[p].pc = "lookup") =>
        /\ \A q \in Callers : mig[q].pc = "idle"
        /\ Len(OutcomeLines(sweep.logs)) = Len(outs) - sweep.first + 1

\* C40: within one sweep the schemas are applied strictly one after another
\* in registration order: the lookup for the next record begins only after
\* applyMigration has returned for the one before, and the outcome lines
\* appear in registration order.
C40_SequentialInOrder == []AppliedInOrder /\ [][EnterStep]_vars

\* Two different pairs are registered; the first has its outcome line and
\* the call for the second is in flight.
C40_Witness ==
    /\ sweep.pc = "await"
    /\ sweep.i = 2
    /\ Len(schemas) = 2
    /\ <<schemas[1].slug, schemas[1].version>> # <<schemas[2].slug, schemas[2].version>>
    /\ Len(OutcomeLines(sweep.logs)) = 1
    /\ \E p \in Callers : mig[p].pc = "exec" /\ mig[p].slug = schemas[2].slug
====
